---------------------------- MODULE Spec2Model ----------------------------
(***************************************************************************)
(* A model of libyang's YANG schema front-end (src/src/parser_yang.c) and  *)
(* of the XML value decoder (src/src/parser_xml.c).                        *)
(*                                                                         *)
(* The module holds several specifications over one set of variables; each *)
(* specification drives one part of the library and leaves the variables   *)
(* of the other parts at their idle values.                                *)
(*   SpecImport : yang_fill_import and the context's parsing stack         *)
(*   SpecRev    : the revision statements of one module                    *)
(*   SpecStmt   : the at-most-once statements of one owner                 *)
(*   SpecValue  : xml_get_value on one leaf                                *)
(*   SpecParse  : xml_read_data and xml_parse_data on one document         *)
(*   SpecType   : the type statement of one leaf and yang_check_type       *)
(*   SpecKey    : yang_read_key on the key statement of one list           *)
(*   SpecArr    : yang_add_elem and yang_elem_of_array on growing arrays   *)
(*   SpecXf     : transform_data_xml2json on one value                     *)
(***************************************************************************)
EXTENDS Integers, Sequences, FiniteSets, TLC

VARIABLES
    \* --- import machinery (struct ly_ctx, yang_fill_import) ---
    imports,    \* the schema sources: module name -> names it imports, in order
    heap,       \* malloc'd strings: address -> its text, or NoStr when free
    parsing,    \* ctx->models.parsing: the addresses pushed, <<>> is NULL
    loaded,     \* ctx->models.list: names of the modules in the context
    frames,     \* the C call stack of module parses, innermost last
    outcome,    \* what the outermost load returned and why
    \* --- revisions of the module being parsed (yang_read_revision) ---
    rev,        \* module->rev[0 .. rev_size-1], index 1 is rev[0]
    cur,        \* the slot yang_read_revision returned last (0: none yet)
    readDates,  \* history: the arguments of yang_read_revision, in call order
    revRet,     \* what the last statement handler of the revision returned
    \* --- the at-most-once statements of one owner ---
    owner,      \* the kind of the statement owner being filled
    fields,     \* its string members: member name -> text or NULL
    flags,      \* its uint8_t flags word
    stmtRet,    \* what the last statement handler returned
    lastStmt,   \* history: the statement and argument of the last handler call
    \* --- one call of xml_get_value (_xml_get_value) ---
    dType,      \* the type of the leaf's schema node
    dContent,   \* xml->content on entry
    dOpts,      \* the options of the parse
    leaf,       \* the data node: value_str, value_type, value
    dPc,        \* "call", "union" (inside the loop over the members) or "done"
    dRet,       \* the return code
    dErr,       \* the error logged
    uType,      \* the union member the loop is at, NoType behind the last
    tried,      \* history: the members the loop has called, in order
    \* --- the data parser (xml_read_data, xml_parse_data) ---
    input,      \* the document handed to xml_read_data
    xmlTree,    \* the children of the root of the XML tree being read
    nodes,      \* the data nodes allocated by the call, a pointer is an index
    calls,      \* the activations of xml_parse_data, innermost last
    options,    \* the options of the call
    features,   \* the features of the module that are enabled
    ly_errno,   \* LY_SUCCESS, LY_EVALID or LY_EINT
    ly_vecode,  \* the code of the validation error logged last
    unres,      \* the queue of leaves to resolve: pointers, in order
    rPc,        \* where xml_read_data stands
    rResult,    \* what xml_parse_data, then xml_read_data, returned
    history,    \* the calls of xml_read_data finished before, in order
    \* --- one type statement (yang_read_type .. yang_check_type) ---
    tName,      \* typ->name, the argument of the type statement
    tType,      \* typ->type: base, der, module_name, info.str
    tPc,        \* "read" while the substatements are read, then "done" or "fault"
    tRet,       \* what the last handler returned
    tErr,       \* the errors logged, in order
    \* --- the key statement of one list (yang_read_key) ---
    kArg,       \* the argument of the key statement, held in list->keys
    kSize,      \* list->keys_size
    kKeys,      \* the length of the array list->keys, -1 before the calloc
    kUnres,     \* the records added to unres: kind and string
    kRet,       \* what yang_read_key returned
    kPc,        \* "call" before the call, then "done"
    \* --- the arrays grown in steps (yang_add_elem, yang_elem_of_array) ---
    aSize,      \* *size of the array of yang_add_elem
    aCap,       \* the elements allocated behind *node, 0 is NULL
    aRet,       \* what yang_add_elem returned last
    eSize,      \* *act_size of the array of yang_elem_of_array
    eCap,       \* the elements allocated behind *ptr, 0 is NULL
    eRet,       \* whether yang_elem_of_array returned an element last
    \* --- one call of transform_data_xml2json ---
    xfIn,       \* xml->content, the value to transform
    xfRes,      \* what the call returned and its size accounting
    xfPc        \* "call" before the call, then "done", or "fault"

varsImport == <<imports, heap, parsing, loaded, frames, outcome>>

varsRev == <<rev, cur, readDates, revRet>>

varsStmt == <<owner, fields, flags, stmtRet, lastStmt>>

varsVal == <<dType, dContent, dOpts, leaf, dPc, dRet, dErr, uType, tried>>

varsParse ==
    <<input, xmlTree, nodes, calls, options, features, ly_errno, ly_vecode, unres,
      rPc, rResult, history>>

varsType == <<tName, tType, tPc, tRet, tErr>>

varsKey == <<kArg, kSize, kKeys, kUnres, kRet, kPc>>

varsArr == <<aSize, aCap, aRet, eSize, eCap, eRet>>

varsXf == <<xfIn, xfRes, xfPc>>

vars ==
    <<varsImport, varsRev, varsStmt, varsVal, varsParse,
      varsType,
      varsKey,
      varsArr,
      varsXf>>

\* what each part leaves alone
notImport == <<varsRev, varsStmt, varsVal, varsParse, varsType, varsKey, varsArr, varsXf>>

notRev == <<varsImport, varsStmt, varsVal, varsParse, varsType, varsKey, varsArr, varsXf>>

notStmt == <<varsImport, varsRev, varsVal, varsParse, varsType, varsKey, varsArr, varsXf>>

notVal == <<varsImport, varsRev, varsStmt, varsParse, varsType, varsKey, varsArr, varsXf>>

notParse == <<varsImport, varsRev, varsStmt, varsVal, varsType, varsKey, varsArr, varsXf>>

notType ==
    <<varsImport, varsRev, varsStmt, varsVal, varsParse, varsKey, varsArr, varsXf>>

notKey ==
    <<varsImport, varsRev, varsStmt, varsVal, varsParse, varsType, varsArr, varsXf>>

notArr ==
    <<varsImport, varsRev, varsStmt, varsVal, varsParse, varsType, varsKey, varsXf>>

notXf ==
    <<varsImport, varsRev, varsStmt, varsVal, varsParse, varsType, varsKey, varsArr>>

(***************************************************************************)
(* Helpers on sequences.                                                   *)
(***************************************************************************)
Last(s) == s[Len(s)]

Front(s) == SubSeq(s, 1, Len(s) - 1)

Range(s) == {s[i] : i \in DOMAIN s}

\* all sequences over S of length at most n
SeqsUpTo(S, n) == UNION {[1..k -> S] : k \in 0..n}

\* characters are one-character strings; their codes, as strcmp orders them
Digits == <<"0", "1", "2", "3", "4", "5", "6", "7", "8", "9">>

IsDigit(c) == c \in Range(Digits)

DigitVal(c) == CHOOSE i \in 0..9 : Digits[i + 1] = c

Ord(c) ==
    CASE c = "\t" -> 9
      [] c = " " -> 32
      [] c = "+" -> 43
      [] c = "-" -> 45
      [] IsDigit(c) -> 48 + DigitVal(c)
      [] c = "a" -> 97
      [] c = "b" -> 98
      [] c = "c" -> 99
      [] c = "d" -> 100
      [] c = "e" -> 101
      [] c = "f" -> 102
      [] c = "l" -> 108
      [] c = "r" -> 114
      [] c = "s" -> 115
      [] c = "t" -> 116
      [] c = "u" -> 117
      [] c = "x" -> 120
      [] OTHER -> 122

\* strcmp of two NUL-terminated strings: negative, zero or positive
RECURSIVE Strcmp(_, _)
Strcmp(a, b) ==
    IF a = <<>> /\ b = <<>> THEN 0
    ELSE IF a = <<>> THEN 0 - Ord(Head(b))
    ELSE IF b = <<>> THEN Ord(Head(a))
    ELSE IF Head(a) # Head(b) THEN Ord(Head(a)) - Ord(Head(b))
    ELSE Strcmp(Tail(a), Tail(b))

\* the null pointer of a string field (strings are sequences of characters)
NULL == <<"<NULL>">>

\* yang_check_string: a string statement that may occur once per owner.
\* Gives the return code and the new content of *target.
yang_check_string(target, value) ==
    IF target # NULL
    THEN [ret |-> 1, target |-> target]      \* LYE_TOOMANY
    ELSE [ret |-> 0, target |-> value]

(***************************************************************************)
(* Import machinery.                                                       *)
(***************************************************************************)
\* deepest nesting of module parses that is explored
MaxDepth == 3

\* most import statements in one module
MaxImports == 2

\* the modules whose source the context can find
Modules == {"A", "B"}

\* names an import statement may carry; "X" has no source
ImportNames == Modules \cup {"X"}

NoStr == "<free>"

NoModule == "<null>"

\* addresses malloc may hand out: one import argument is live per frame
Addrs == 1..(MaxDepth + 1)

FreeAddrs == {a \in Addrs : heap[a] = NoStr}

\* the text of the string at an address
StrAt(a) == heap[a]

\* The scan of lines 113-122: the index of the first stack entry that is
\* the very pointer `value`, 0 when the loop runs to the terminating NULL.
CircularAt(stack, value) ==
    IF \E i \in DOMAIN stack : stack[i] = value
    THEN CHOOSE i \in DOMAIN stack :
            /\ stack[i] = value
            /\ \A j \in 1..(i - 1) : stack[j] # value
    ELSE 0

\* ly_ctx_get_module: the module of that name already in the context
CtxGetModule(name) == IF name \in loaded THEN name ELSE NoModule

\* a fresh frame of the parser entered for module `m`
NewFrame(m) ==
    [mod |-> m, next |-> 1, imp |-> <<>>, imp_size |-> 0,
     pc |-> "stmts", value |-> 0, count |-> 0, ret |-> NoModule]

\* cut the innermost frame and hand `r` to the yang_fill_import that waits
\* in the frame below (ly_ctx_load_module returning)
ReturnToCaller(r) ==
    IF Len(frames) = 1
    THEN /\ frames' = <<>>
         /\ outcome' = IF r = NoModule THEN "failed" ELSE "loaded"
    ELSE /\ frames' = [Front(frames) EXCEPT ![Len(frames) - 1].ret = r,
                                         ![Len(frames) - 1].pc = "afterload"]
         /\ UNCHANGED outcome

\* ly_ctx_load_module called by the application for module m
LoadModule(m) ==
    /\ frames = <<>>
    /\ m \notin loaded
    /\ frames' = <<NewFrame(m)>>
    /\ outcome' = "parsing"
    /\ UNCHANGED <<imports, heap, parsing, loaded, notImport>>

\* yang_fill_import, lines 112-137: the circular check, the push and the
\* lookup; the load of a module not yet in the context re-enters the parser.
FillImportEnter ==
    /\ frames # <<>>
    /\ LET f == Last(frames)
           d == Len(frames)
       IN
       /\ f.pc = "stmts"
       /\ f.next <= Len(imports[f.mod])
       /\ \E value \in FreeAddrs :
            LET name == imports[f.mod][f.next]
                hit == CircularAt(parsing, value)
            IN
            /\ heap' = [heap EXCEPT ![value] = name]
            /\ IF hit # 0
               THEN \* goto error
                    /\ frames' = [frames EXCEPT ![d].pc = "error",
                                                ![d].value = value]
                    /\ outcome' = "circular"
                    /\ UNCHANGED parsing
               ELSE /\ parsing' = Append(parsing, value)
                    /\ UNCHANGED outcome
                    /\ IF CtxGetModule(name) # NoModule
                       THEN frames' = [frames EXCEPT
                                ![d].pc = "afterload",
                                ![d].value = value,
                                ![d].count = Len(parsing) + 1,
                                ![d].ret = CtxGetModule(name)]
                       ELSE IF name \in Modules /\ d < MaxDepth
                       THEN frames' = Append(
                                [frames EXCEPT ![d].pc = "loading",
                                               ![d].value = value,
                                               ![d].count = Len(parsing) + 1],
                                NewFrame(name))
                       ELSE \* no source for the name (or the nesting bound)
                            frames' = [frames EXCEPT
                                ![d].pc = "afterload",
                                ![d].value = value,
                                ![d].count = Len(parsing) + 1,
                                ![d].ret = NoModule]
       /\ UNCHANGED <<imports, loaded, notImport>>

PopParsing_keeplast(stack, cnt) ==
    IF cnt # 0 THEN SubSeq(stack, 1, cnt) ELSE stack

\* lines 144-150: --count, then the entry is overwritten by the terminating
\* NULL, or the array is freed when it was the only entry
PopParsing(stack, cnt) ==
    IF cnt # 0 THEN SubSeq(stack, 1, cnt) ELSE <<>>

\* yang_fill_import, lines 140-169: the pop, the result, the duplicate check
FillImportReturn ==
    /\ frames # <<>>
    /\ LET f == Last(frames)
           d == Len(frames)
           cnt == f.count - 1
           imp2 == Append(f.imp, f.ret)
           size2 == f.imp_size + 1
       IN
       /\ f.pc = "afterload"
       /\ parsing' = PopParsing(parsing, cnt)
       /\ IF f.ret = NoModule
          THEN \* "Importing ... failed", goto error
               /\ frames' = [frames EXCEPT ![d].pc = "error"]
               /\ outcome' = "import-failed"
          ELSE IF \E i \in 1..(size2 - 1) : imp2[i] = imp2[size2]
          THEN \* "Importing module repeatedly", goto error
               /\ frames' = [frames EXCEPT ![d].pc = "error",
                                           ![d].imp = imp2,
                                           ![d].imp_size = size2]
               /\ outcome' = "dup-import"
          ELSE /\ frames' = [frames EXCEPT ![d].pc = "stmts",
                                           ![d].imp = imp2,
                                           ![d].imp_size = size2,
                                           ![d].next = f.next + 1,
                                           ![d].value = 0,
                                           ![d].ret = NoModule]
               /\ UNCHANGED outcome
       /\ heap' = IF f.ret # NoModule
                     /\ ~(\E i \in 1..(size2 - 1) : imp2[i] = imp2[size2])
                  THEN [heap EXCEPT ![f.value] = NoStr]   \* free(value), line 168
                  ELSE heap                               \* freed at error:
       /\ UNCHANGED <<imports, loaded, notImport>>

\* the error label of yang_fill_import (lines 171-174) and the parser giving
\* the module up: free(value), EXIT_FAILURE, the load returns NULL
FillImportError ==
    /\ frames # <<>>
    /\ Last(frames).pc = "error"
    /\ heap' = [heap EXCEPT ![Last(frames).value] = NoStr]
    /\ ReturnToCaller(NoModule)
    /\ UNCHANGED <<imports, parsing, loaded, notImport>>

\* the parser reaches the end of the module: it joins the context
ModuleDone ==
    /\ frames # <<>>
    /\ LET f == Last(frames) IN
       /\ f.pc = "stmts"
       /\ f.next > Len(imports[f.mod])
       /\ loaded' = loaded \cup {f.mod}
       /\ ReturnToCaller(f.mod)
    /\ UNCHANGED <<imports, heap, parsing, notImport>>

NextImport ==
    \/ \E m \in Modules : LoadModule(m)
    \/ FillImportEnter
    \/ FillImportReturn
    \/ FillImportError
    \/ ModuleDone

(***************************************************************************)
(* Revisions: yang_read_revision and the description / reference of a      *)
(* revision statement.                                                     *)
(***************************************************************************)
\* most revision statements in one module
MaxRevs == 3

TwoDigits(n) == <<Digits[(n \div 10) + 1], Digits[(n % 10) + 1]>>

\* the text "20yy-mm-dd"
DateText(y, m, d) ==
    <<"2", "0">> \o TwoDigits(y) \o <<"-">> \o TwoDigits(m) \o <<"-">> \o TwoDigits(d)

\* the dates the revision statements of the source may carry
Dates == {DateText(y, m, 1) : y \in {14, 15}, m \in {1, 12}}

\* the texts a description or a reference inside "revision <date> {...}" has
TextOf(what, date) == <<what, date>>

yang_read_revision_noswap(revs, value) ==
    [rev |-> Append(revs, [date |-> value, dsc |-> NULL, ref |-> NULL]),
     retval |-> Len(revs) + 1]

yang_read_revision_dropdsc(revs, value) ==
    IF revs # <<>> /\ Strcmp(revs[1].date, value) < 0
    THEN [rev |-> Append([revs EXCEPT ![1] = [date |-> value, dsc |-> revs[1].dsc,
                                              ref |-> revs[1].ref]],
                         [date |-> revs[1].date, dsc |-> NULL, ref |-> NULL]),
          retval |-> 1]
    ELSE [rev |-> Append(revs, [date |-> value, dsc |-> NULL, ref |-> NULL]),
          retval |-> Len(revs) + 1]

\* yang_read_revision: the array after the call and the slot it returns.
\* retval = &rev[rev_size] is the slot one past the used ones (Append).
yang_read_revision(revs, value) ==
    IF revs # <<>> /\ Strcmp(revs[1].date, value) < 0
    THEN \* the old rev[0] moves to the new slot with its dsc and ref,
         \* rev[0] takes the new date and is returned cleared
         [rev |-> Append([revs EXCEPT ![1] = [date |-> value, dsc |-> NULL,
                                              ref |-> NULL]],
                         [date |-> revs[1].date, dsc |-> revs[1].dsc,
                          ref |-> revs[1].ref]),
          retval |-> 1]
    ELSE [rev |-> Append(revs, [date |-> value, dsc |-> NULL, ref |-> NULL]),
          retval |-> Len(revs) + 1]

\* the parser meets "revision <value>"
ReadRevision(value) ==
    /\ Len(rev) < MaxRevs
    /\ rev' = yang_read_revision(rev, value).rev
    /\ cur' = yang_read_revision(rev, value).retval
    /\ readDates' = Append(readDates, value)
    /\ revRet' = 0
    /\ UNCHANGED notRev

\* yang_read_description(module, node, value, REVISION_KEYWORD, line) with
\* node the slot yang_read_revision returned for the enclosing statement
ReadRevDescription ==
    /\ cur # 0
    /\ LET r == yang_check_string(rev[cur].dsc, TextOf("dsc", Last(readDates))) IN
       /\ rev' = [rev EXCEPT ![cur].dsc = r.target]
       /\ revRet' = r.ret
    /\ UNCHANGED <<cur, readDates>>
    /\ UNCHANGED notRev

\* yang_read_reference(module, node, value, REVISION_KEYWORD, line)
ReadRevReference ==
    /\ cur # 0
    /\ LET r == yang_check_string(rev[cur].ref, TextOf("ref", Last(readDates))) IN
       /\ rev' = [rev EXCEPT ![cur].ref = r.target]
       /\ revRet' = r.ret
    /\ UNCHANGED <<cur, readDates>>
    /\ UNCHANGED notRev

NextRev ==
    \/ \E value \in Dates : ReadRevision(value)
    \/ ReadRevDescription
    \/ ReadRevReference

(***************************************************************************)
(* The statements that may occur once per owner.                           *)
(***************************************************************************)
\* bitwise and / or of two flag words
RECURSIVE BitAnd(_, _)
BitAnd(a, b) ==
    IF a = 0 \/ b = 0 THEN 0
    ELSE (a % 2) * (b % 2) + 2 * BitAnd(a \div 2, b \div 2)

RECURSIVE BitOr(_, _)
BitOr(a, b) ==
    IF a = 0 THEN b
    ELSE IF b = 0 THEN a
    ELSE (IF a % 2 = 1 \/ b % 2 = 1 THEN 1 ELSE 0) + 2 * BitOr(a \div 2, b \div 2)

\* the flag bits of a schema node
LYS_CONFIG_W == 1

LYS_CONFIG_R == 2

LYS_CONFIG_MASK == 3

LYS_STATUS_CURR == 4

LYS_STATUS_DEPRC == 8

LYS_STATUS_OBSLT == 16

LYS_STATUS_MASK == 28

LYS_MAND_TRUE == 32

LYS_MAND_FALSE == 64

LYS_MAND_MASK == 96

\* uint8_t
Uint8Mod == 256

\* yang_check_flags: a flag statement that may occur once per owner
yang_check_flags(fl, mask, value) ==
    IF BitAnd(fl, mask) # 0
    THEN [ret |-> 1, flags |-> fl]           \* LYE_TOOMANY
    ELSE [ret |-> 0, flags |-> BitOr(fl, value) % Uint8Mod]

\* the arguments the statements of the source carry
Texts == {<<"a">>, <<"b">>}

\* the arguments of a prefix statement; "9" is no identifier
PrefixTexts == Texts \cup {<<"9">>}

\* lyp_check_identifier: 0 for a YANG identifier
lyp_check_identifier(value) ==
    IF value # <<>> /\ ~IsDigit(value[1]) THEN 0 ELSE 1

\* the string members of the owners
StringFields ==
    {"name", "ns", "org", "contact", "prefix", "dsc", "ref", "presence",
     "dflt", "units", "emsg", "eapptag"}

\* the owners each handler's switch knows
OwnerKinds ==
    {"module", "import", "revision", "feature", "identity", "must", "when",
     "container", "anyxml", "choice", "case", "grouping", "leaf", "leaflist",
     "list", "length"}

DescriptionOwners == OwnerKinds \ {"import"}

StatusOwners ==
    {"feature", "identity", "container", "anyxml", "choice", "case",
     "grouping", "leaf", "leaflist", "list"}

ConfigOwners == {"container", "anyxml", "choice", "leaf", "leaflist", "list"}

MandatoryOwners == {"anyxml", "choice", "leaf"}

UnitsOwners == {"leaf", "leaflist"}

MessageOwners == {"must", "length"}

\* a handler that goes through yang_check_string for member f
CheckedString(stmt, f, value) ==
    LET r == yang_check_string(fields[f], value) IN
    /\ fields' = [fields EXCEPT ![f] = r.target]
    /\ stmtRet' = r.ret
    /\ lastStmt' = [stmt |-> stmt, value |-> value]
    /\ UNCHANGED <<owner, flags>>
    /\ UNCHANGED notStmt

\* a handler that goes through yang_check_flags
CheckedFlag(stmt, mask, value) ==
    LET r == yang_check_flags(flags, mask, value) IN
    /\ flags' = r.flags
    /\ stmtRet' = r.ret
    /\ lastStmt' = [stmt |-> stmt, value |-> value]
    /\ UNCHANGED <<owner, fields>>
    /\ UNCHANGED notStmt

\* yang_read_common
YangReadCommon(value) ==
    /\ owner = "module"
    /\ \/ \* MODULE_KEYWORD: module->name = value, unconditionally
          /\ fields' = [fields EXCEPT !["name"] = value]
          /\ stmtRet' = 0
          /\ lastStmt' = [stmt |-> "module", value |-> value]
          /\ UNCHANGED <<owner, flags>>
          /\ UNCHANGED notStmt
       \/ CheckedString("namespace", "ns", value)
       \/ CheckedString("organization", "org", value)
       \/ CheckedString("contact", "contact", value)

\* yang_read_prefix
YangReadPrefix(value) ==
    /\ owner \in {"module", "import"}
    /\ IF lyp_check_identifier(value) # 0
       THEN /\ stmtRet' = 1                 \* EXIT_FAILURE, nothing stored
            /\ lastStmt' = [stmt |-> "prefix", value |-> value]
            /\ UNCHANGED <<owner, fields, flags>>
            /\ UNCHANGED notStmt
       ELSE IF owner = "module"
       THEN CheckedString("prefix", "prefix", value)
       ELSE \* IMPORT_KEYWORD: imp->prefix = value, unconditionally
            /\ fields' = [fields EXCEPT !["prefix"] = value]
            /\ stmtRet' = 0
            /\ lastStmt' = [stmt |-> "prefix", value |-> value]
            /\ UNCHANGED <<owner, flags>>
            /\ UNCHANGED notStmt

\* yang_read_description
YangReadDescription(value) ==
    /\ owner \in DescriptionOwners
    /\ CheckedString("description", "dsc", value)

\* yang_read_reference
YangReadReference(value) ==
    /\ owner \in DescriptionOwners
    /\ CheckedString("reference", "ref", value)

\* yang_read_status
YangReadStatus(value) ==
    /\ owner \in StatusOwners
    /\ CheckedFlag("status", LYS_STATUS_MASK, value)

\* yang_read_config
YangReadConfig(value) ==
    /\ owner \in ConfigOwners
    /\ CheckedFlag("config", LYS_CONFIG_MASK, value)

\* yang_read_mandatory
YangReadMandatory(value) ==
    /\ owner \in MandatoryOwners
    /\ CheckedFlag("mandatory", LYS_MAND_MASK, value)

\* yang_read_presence
YangReadPresence(value) ==
    /\ owner = "container"
    /\ IF fields["presence"] # NULL
       THEN /\ stmtRet' = 1                 \* LYE_TOOMANY
            /\ UNCHANGED fields
       ELSE /\ stmtRet' = 0
            /\ fields' = [fields EXCEPT !["presence"] = value]
    /\ lastStmt' = [stmt |-> "presence", value |-> value]
    /\ UNCHANGED <<owner, flags>>
    /\ UNCHANGED notStmt

\* yang_read_default
YangReadDefault(value) ==
    /\ owner = "leaf"
    /\ CheckedString("default", "dflt", value)

\* yang_read_units
YangReadUnits(value) ==
    /\ owner \in UnitsOwners
    /\ CheckedString("units", "units", value)

\* yang_read_message
YangReadMessage(value) ==
    /\ owner \in MessageOwners
    /\ \/ CheckedString("error-app-tag", "eapptag", value)
       \/ CheckedString("error-message", "emsg", value)

NextStmt ==
    \/ \E value \in Texts : YangReadCommon(value)
    \/ \E value \in PrefixTexts : YangReadPrefix(value)
    \/ \E value \in Texts : YangReadDescription(value)
    \/ \E value \in Texts : YangReadReference(value)
    \/ \E value \in {LYS_STATUS_CURR, LYS_STATUS_DEPRC, LYS_STATUS_OBSLT} :
          YangReadStatus(value)
    \/ \E value \in {LYS_CONFIG_W, LYS_CONFIG_R} : YangReadConfig(value)
    \/ \E value \in {LYS_MAND_TRUE, LYS_MAND_FALSE} : YangReadMandatory(value)
    \/ \E value \in Texts : YangReadPresence(value)
    \/ \E value \in Texts : YangReadDefault(value)
    \/ \E value \in Texts : YangReadUnits(value)
    \/ \E value \in Texts : YangReadMessage(value)

(***************************************************************************)
(* Lexical values: the C library calls the decoder makes.                  *)
(***************************************************************************)
\* isspace in the C locale
IsSpace(c) == c \in {" ", "\t", "\n"}

\* the value of a digit in the bases strtoll knows, 99 for any other character
DigitIn(c) ==
    CASE IsDigit(c) -> DigitVal(c)
      [] c = "a" -> 10
      [] c = "b" -> 11
      [] c = "c" -> 12
      [] OTHER -> 99

\* the character at position i (1-based), "" for the terminating NUL
At(s, i) == IF i \in DOMAIN s THEN s[i] ELSE ""

\* the first position at or after i that holds no white space
RECURSIVE SkipSpace(_, _)
SkipSpace(s, i) == IF IsSpace(At(s, i)) THEN SkipSpace(s, i + 1) ELSE i

\* width in bits of long long.  The C type has 64 bits; the integers of the
\* model checker have 32, so the type is modelled narrower, with every
\* wrap-around and ERANGE of the C functions kept.
LLBits == 20

LLONG_MAX == 2 ^ (LLBits - 1) - 1

LLONG_MIN == 0 - 2 ^ (LLBits - 1)

ULLONG_MAX == 2 ^ LLBits - 1

\* the digits of the subject sequence from position i on, in `base`,
\* accumulated into acc; `over` once the magnitude passes cutoff
RECURSIVE ScanDigits(_, _, _, _, _, _)
ScanDigits(s, i, base, acc, over, cutoff) ==
    LET d == DigitIn(At(s, i)) IN
    IF d >= base
    THEN [val |-> acc, over |-> over, end |-> i]
    ELSE IF over \/ acc > (cutoff - d) \div base
    THEN ScanDigits(s, i + 1, base, acc, TRUE, cutoff)
    ELSE ScanDigits(s, i + 1, base, acc * base + d, FALSE, cutoff)

\* the subject sequence of strtoll / strtoull with base 0: white space, an
\* optional sign, an optional 0x or 0 prefix, digits.  cutoffNeg and
\* cutoffPos are the greatest magnitudes with and without a minus sign.
\* end = 1 (the start of the string) when no conversion is done.
StrtoEnd(r, start, neg) ==
    IF r.end = start
    THEN [val |-> 0, over |-> FALSE, neg |-> FALSE, end |-> 1]
    ELSE [val |-> r.val, over |-> r.over, neg |-> neg, end |-> r.end]

StrtoDigits(s, start, base, neg, cutoff) ==
    StrtoEnd(ScanDigits(s, start, base, 0, FALSE, cutoff), start, neg)

StrtoPrefix(s, i1, neg, cutoff) ==
    IF At(s, i1) = "0" /\ At(s, i1 + 1) = "x" /\ DigitIn(At(s, i1 + 2)) < 16
    THEN StrtoDigits(s, i1 + 2, 16, neg, cutoff)
    ELSE IF At(s, i1) = "0"
    THEN StrtoDigits(s, i1, 8, neg, cutoff)
    ELSE StrtoDigits(s, i1, 10, neg, cutoff)

StrtoSign(s, i0, cutoffNeg, cutoffPos) ==
    IF At(s, i0) = "-" THEN StrtoPrefix(s, i0 + 1, TRUE, cutoffNeg)
    ELSE IF At(s, i0) = "+" THEN StrtoPrefix(s, i0 + 1, FALSE, cutoffPos)
    ELSE StrtoPrefix(s, i0, FALSE, cutoffPos)

StrtoScan(s, cutoffNeg, cutoffPos) ==
    StrtoSign(s, SkipSpace(s, 1), cutoffNeg, cutoffPos)

\* strtoll(str, &strptr, 0)
StrtollOf(r) ==
    [num |-> IF r.over THEN (IF r.neg THEN LLONG_MIN ELSE LLONG_MAX)
             ELSE IF r.neg THEN 0 - r.val ELSE r.val,
     errno |-> r.over,
     end |-> r.end]

Strtoll(s) == StrtollOf(StrtoScan(s, 0 - LLONG_MIN, LLONG_MAX))

\* strtoull(str, &strptr, 0): a minus sign negates in the unsigned type
StrtoullOf(r) ==
    [num |-> IF r.over THEN ULLONG_MAX
             ELSE IF r.neg THEN (ULLONG_MAX + 1 - r.val) % (ULLONG_MAX + 1)
             ELSE r.val,
     errno |-> r.over,
     end |-> r.end]

Strtoull(s) == StrtoullOf(StrtoScan(s, ULLONG_MAX, ULLONG_MAX))

\* the tail of parse_int and parse_uint: what follows the number must be
\* white space only
OnlySpaceFrom(s, i) == SkipSpace(s, i) > Len(s)

\* parse_int after the call of strtoll, r: return code, error logged, *ret
ParseIntChecks(s, r, min, max) ==
    IF r.errno \/ r.num < min \/ r.num > max
    THEN [ret |-> 1, err |-> "OORVAL", num |-> r.num]
    ELSE IF ~OnlySpaceFrom(s, r.end)
    THEN [ret |-> 1, err |-> "INVAL", num |-> r.num]
    ELSE [ret |-> 0, err |-> "", num |-> r.num]

parse_int(s, min, max) == ParseIntChecks(s, Strtoll(s), min, max)

\* parse_uint after the call of strtoull
ParseUintChecks(s, r, max) ==
    IF r.errno \/ r.num > max
    THEN [ret |-> 1, err |-> "OORVAL", num |-> r.num]
    ELSE IF ~OnlySpaceFrom(s, r.end)
    THEN [ret |-> 1, err |-> "INVAL", num |-> r.num]
    ELSE [ret |-> 0, err |-> "", num |-> r.num]

parse_uint(s, max) == ParseUintChecks(s, Strtoull(s), max)

\* the decimal digits of a natural number
RECURSIVE NatText(_)
NatText(n) ==
    IF n < 10 THEN <<Digits[n + 1]>>
    ELSE NatText(n \div 10) \o <<Digits[(n % 10) + 1]>>

\* the canonical decimal text of an integer
IntText(n) == IF n < 0 THEN <<"-">> \o NatText(0 - n) ELSE NatText(n)

(***************************************************************************)
(* The schema types the decoder is run against (struct lys_type).          *)
(***************************************************************************)
\* type->der == NULL: the type of a built-in typedef
NoType == "<none>"

\* a struct lys_type: its base, the type of the typedef it derives from,
\* and the restrictions written at this very level (<<>> is a null pointer)
Ty(base, der) ==
    [base |-> base, der |-> der, range |-> <<>>, length |-> <<>>,
     patterns |-> <<>>, bits |-> <<>>, uni |-> <<>>, dig |-> 0,
     enums |-> <<>>]

Intv(min, max) == [min |-> min, max |-> max]

\* The types of the schema under test.  The first block are the built-in
\* typedefs; T_* are typedefs of the module, L_* the types of its leaves,
\* U_*/M_* unions and the member types written inside them.
TypeTab ==
    \* built-in types
       "int8" :> Ty("INT8", NoType)
    @@ "int16" :> Ty("INT16", NoType)
    @@ "int64" :> Ty("INT64", NoType)
    @@ "uint8" :> Ty("UINT8", NoType)
    @@ "uint16" :> Ty("UINT16", NoType)
    @@ "uint64" :> Ty("UINT64", NoType)
    @@ "boolean" :> Ty("BOOL", NoType)
    @@ "bits" :> Ty("BITS", NoType)
    @@ "string" :> Ty("STRING", NoType)
    @@ "union" :> Ty("UNION", NoType)
    \* integer leaves
    @@ "L_int8" :> Ty("INT8", "int8")
    @@ "L_int16" :> Ty("INT16", "int16")
    @@ "L_int64" :> Ty("INT64", "int64")
    @@ "L_uint8" :> Ty("UINT8", "uint8")
    @@ "L_uint16" :> Ty("UINT16", "uint16")
    @@ "L_uint64" :> Ty("UINT64", "uint64")
    \* type uint8 { range "0..10|20..30"; }
    @@ "L_uint8_r" :> [Ty("UINT8", "uint8") EXCEPT
                          !.range = <<Intv(0, 10), Intv(20, 30)>>]
    \* type int8 { range "-10..-1|5..20"; }
    @@ "L_int8_r" :> [Ty("INT8", "int8") EXCEPT
                          !.range = <<Intv(-10, -1), Intv(5, 20)>>]
    \* typedef pct { type uint8 { range "0..100"; } }
    @@ "T_pct" :> [Ty("UINT8", "uint8") EXCEPT !.range = <<Intv(0, 100)>>]
    \* type pct { range "5..25|31..255"; }
    @@ "L_pct_r" :> [Ty("UINT8", "T_pct") EXCEPT
                          !.range = <<Intv(5, 25), Intv(31, 255)>>]
    \* boolean leaf
    @@ "L_bool" :> Ty("BOOL", "boolean")
    \* typedef flags { type bits { bit a; bit b; bit c; } }
    @@ "T_flags" :> [Ty("BITS", "bits") EXCEPT !.bits = <<<<"a">>, <<"b">>, <<"c">>>>]
    \* type bits { bit a; bit b; bit c; } and type flags;
    @@ "L_bits" :> [Ty("BITS", "bits") EXCEPT !.bits = <<<<"a">>, <<"b">>, <<"c">>>>]
    @@ "L_flags" :> Ty("BITS", "T_flags")
    \* string leaves
    @@ "L_str" :> Ty("STRING", "string")
    \* type string { length "1..2"; pattern "a.*"; }
    @@ "L_str_lp" :> [Ty("STRING", "string") EXCEPT
                          !.length = <<Intv(1, 2)>>,
                          !.patterns = <<<<"a", ".", "*">> >>]
    \* typedef word { type string { length "1..2"; pattern "a.*"; } }
    @@ "T_word" :> [Ty("STRING", "string") EXCEPT
                          !.length = <<Intv(1, 2)>>,
                          !.patterns = <<<<"a", ".", "*">> >>]
    \* type word;
    @@ "L_word" :> Ty("STRING", "T_word")
    \* type word { pattern ".*b"; }
    @@ "L_word_p" :> [Ty("STRING", "T_word") EXCEPT
                          !.patterns = <<<<".", "*", "b">> >>]
    \* type word { length "2"; }
    @@ "L_word_l" :> [Ty("STRING", "T_word") EXCEPT !.length = <<Intv(2, 2)>>]
    \* type union { type uint8 { range "0..10|20..30"; } type int8;
    \*              type string { pattern "a.*"; } }
    @@ "U_plain" :> [Ty("UNION", "union") EXCEPT !.uni = <<"M_a", "M_b", "M_c">>]
    @@ "M_a" :> [Ty("UINT8", "uint8") EXCEPT !.range = <<Intv(0, 10), Intv(20, 30)>>]
    @@ "M_b" :> Ty("INT8", "int8")
    @@ "M_c" :> [Ty("STRING", "string") EXCEPT !.patterns = <<<<"a", ".", "*">> >>]
    \* type union { type int8; type union { type uint8; type bits {...} }
    \*              type string { pattern ".*b"; } }
    @@ "U_nested" :> [Ty("UNION", "union") EXCEPT !.uni = <<"N_a", "N_u", "N_d">>]
    @@ "N_a" :> Ty("INT8", "int8")
    @@ "N_u" :> [Ty("UNION", "union") EXCEPT !.uni = <<"N_b", "N_c">>]
    @@ "N_b" :> Ty("UINT8", "uint8")
    @@ "N_c" :> [Ty("BITS", "bits") EXCEPT !.bits = <<<<"a">>, <<"b">>, <<"c">>>>]
    @@ "N_d" :> [Ty("STRING", "string") EXCEPT !.patterns = <<<<".", "*", "b">> >>]
    \* typedef num { type union { type uint8 { range "0..10"; } type int8; } }
    @@ "T_num" :> [Ty("UNION", "union") EXCEPT !.uni = <<"P_a", "P_b">>]
    @@ "P_a" :> [Ty("UINT8", "uint8") EXCEPT !.range = <<Intv(0, 10)>>]
    @@ "P_b" :> Ty("INT8", "int8")
    \* type num;
    @@ "U_num" :> Ty("UNION", "T_num")
    \* type union { type num; type string { pattern "a.*"; } type num; }
    @@ "U_twice" :> [Ty("UNION", "union") EXCEPT !.uni = <<"Q_1", "Q_s", "Q_2">>]
    @@ "Q_1" :> Ty("UNION", "T_num")
    @@ "Q_s" :> [Ty("STRING", "string") EXCEPT !.patterns = <<<<"a", ".", "*">> >>]
    @@ "Q_2" :> Ty("UNION", "T_num")
    \* type union { type bits { bit a; bit b; bit c; }
    \*              type enumeration { enum x; enum ab; } }
    @@ "enumeration" :> Ty("ENUM", NoType)
    @@ "U_be" :> [Ty("UNION", "union") EXCEPT !.uni = <<"E_b", "E_e">>]
    @@ "E_b" :> [Ty("BITS", "bits") EXCEPT !.bits = <<<<"a">>, <<"b">>, <<"c">>>>]
    @@ "E_e" :> [Ty("ENUM", "enumeration") EXCEPT !.enums = <<<<"x">>, <<"a", "b">>>>]
    \* type enumeration { enum x; enum ab; }
    @@ "L_enum" :> [Ty("ENUM", "enumeration") EXCEPT !.enums = <<<<"x">>, <<"a", "b">>>>]
    \* decimal64: the bounds of a range are kept in units of 10^-dig, so
    \* Intv(15, 30) with dig = 1 is the range "1.5..3"
    @@ "decimal64" :> Ty("DEC64", NoType)
    \* type decimal64 { fraction-digits 1; }
    @@ "L_dec1" :> [Ty("DEC64", "decimal64") EXCEPT !.dig = 1]
    \* type decimal64 { fraction-digits 2; }
    @@ "L_dec2" :> [Ty("DEC64", "decimal64") EXCEPT !.dig = 2]
    \* type decimal64 { fraction-digits 1; range "0..10"; }
    @@ "L_dec1_r" :> [Ty("DEC64", "decimal64") EXCEPT !.dig = 1,
                                                      !.range = <<Intv(0, 100)>>]
    \* typedef ratio { type decimal64 { fraction-digits 2; range "-1..1|1.5..3"; } }
    @@ "T_ratio" :> [Ty("DEC64", "decimal64") EXCEPT
                        !.dig = 2, !.range = <<Intv(-100, 100), Intv(150, 300)>>]
    \* type ratio;
    @@ "L_ratio" :> Ty("DEC64", "T_ratio")
    \* leafref and instance-identifier
    @@ "leafref" :> Ty("LEAFREF", NoType)
    @@ "instance-identifier" :> Ty("INST", NoType)
    @@ "L_ref" :> Ty("LEAFREF", "leafref")
    @@ "L_rr" :> Ty("LEAFREF", "leafref")
    @@ "L_iid" :> Ty("INST", "instance-identifier")

TypeIds == DOMAIN TypeTab

\* type->der->type, NoType at a built-in
Der(t) == TypeTab[t].der

\* the derivation chain of a type, the type itself first, the built-in last
RECURSIVE Chain(_)
Chain(t) == IF Der(t) = NoType THEN <<t>> ELSE <<t>> \o Chain(Der(t))

\* for (type = node_type; type->der->type.der; type = &type->der->type);
\* the level right under the built-in, which holds the bit definitions
RECURSIVE LocateDefs(_)
LocateDefs(t) == IF Der(Der(t)) = NoType THEN t ELSE LocateDefs(Der(t))

Min2(a, b) == IF a < b THEN a ELSE b

Max2(a, b) == IF a > b THEN a ELSE b

\* a set of disjoint intervals as the list sorted by min
RECURSIVE SortIntervals(_)
SortIntervals(S) ==
    IF S = {} THEN <<>>
    ELSE LET first == CHOOSE x \in S : \A y \in S : x.min <= y.min
         IN <<first>> \o SortIntervals(S \ {first})

\* the intersection of two interval lists; <<>> stands for "no restriction"
Intersect(A, B) ==
    IF A = <<>> THEN B
    ELSE IF B = <<>> THEN A
    ELSE SortIntervals({Intv(Max2(a.min, b.min), Min2(a.max, b.max)) :
                            <<a, b>> \in {<<x, y>> \in Range(A) \X Range(B) :
                                Max2(x.min, y.min) <= Min2(x.max, y.max)}})

\* the restriction `field` (range or length) of every level of the chain
RECURSIVE ChainIntervals(_, _)
ChainIntervals(t, field) ==
    IF t = NoType THEN <<>>
    ELSE Intersect(TypeTab[t][field], ChainIntervals(Der(t), field))

\* resolve_len_ran_interval(NULL, type, 0, &intv): the sorted list of the
\* disjoint intervals the type admits, <<>> when nothing restricts it
resolve_len_ran_interval(t) ==
    IF TypeTab[t].base \in {"STRING", "BINARY"}
    THEN ChainIntervals(t, "length")
    ELSE ChainIntervals(t, "range")

\* the walk of validate_length_range over the sorted list: EXIT_SUCCESS (0)
\* in an interval, EXIT_FAILURE (1) once an interval starts above the value
RECURSIVE WalkIntervals(_, _)
WalkIntervals(intv, num) ==
    IF intv = <<>> THEN 1
    ELSE IF num < Head(intv).min THEN 1
    ELSE IF num >= Head(intv).min /\ num <= Head(intv).max THEN 0
    ELSE WalkIntervals(Tail(intv), num)

\* validate_length_range: 0, or 1 with LYE_OORVAL logged
validate_length_range(num, t) ==
    LET intv == resolve_len_ran_interval(t) IN
    IF intv = <<>> THEN 0 ELSE WalkIntervals(intv, num)

\* validate_length_range for kind 2: fnum is the quotient fn / fd, the
\* bounds of the intervals are quotients by scale.  The comparisons of the
\* long doubles are made on the cross products, which are exact.
RECURSIVE WalkIntervalsF(_, _, _, _)
WalkIntervalsF(intv, fn, fd, scale) ==
    IF intv = <<>> THEN 1
    ELSE IF fn * scale < Head(intv).min * fd THEN 1
    ELSE IF fn * scale <= Head(intv).max * fd THEN 0
    ELSE WalkIntervalsF(Tail(intv), fn, fd, scale)

ValidateF(intv, fn, fd, scale) ==
    IF intv = <<>> THEN 0 ELSE WalkIntervalsF(intv, fn, fd, scale)

validate_length_range_f(fn, fd, t, scale) ==
    ValidateF(resolve_len_ran_interval(t), fn, fd, scale)

\* strtoll(str, &strptr, 10): no prefix is looked for
StrtoDecimal(s, i0, cutoffNeg, cutoffPos) ==
    IF At(s, i0) = "-" THEN StrtoDigits(s, i0 + 1, 10, TRUE, cutoffNeg)
    ELSE IF At(s, i0) = "+" THEN StrtoDigits(s, i0 + 1, 10, FALSE, cutoffPos)
    ELSE StrtoDigits(s, i0, 10, FALSE, cutoffPos)

Strtoll10(s) == StrtollOf(StrtoDecimal(s, SkipSpace(s, 1), 0 - LLONG_MIN, LLONG_MAX))

\* parse_int(dec, xml, LLONG_MIN, LLONG_MAX, 10, &num, log)
parse_int10(s, min, max) == ParseIntChecks(s, Strtoll10(s), min, max)

(***************************************************************************)
(* The value decoder: _xml_get_value and what it calls.                    *)
(***************************************************************************)
\* #define DECSIZE 21
DECSIZE == 21

\* the loop that normalizes a decimal64 into dec[]: the digits of the
\* number with exactly dig fraction digits, without the point.  c is the
\* (1-based) start of the number, i the index into dec, j the fraction
\* digits still to come, d the count of digits.
RECURSIVE DecNormalize(_, _, _, _, _, _, _, _)
DecPad(s, dig, c, i, j, d, dec) ==
    IF j = 0 THEN [ret |-> 0, err |-> "", dec |-> dec]
    ELSE IF d + 1 > DECSIZE - 2 THEN [ret |-> 1, err |-> "OORVAL", dec |-> dec]
    ELSE DecNormalize(s, dig, c - 1, i + 1, j - 1, d + 1, TRUE, Append(dec, "0"))

DecChar(s, dig, c, i, j, d, found, dec) ==
    IF ~IsDigit(At(s, c + i)) /\ (i # 0 \/ At(s, c) # "-")
    THEN [ret |-> 1, err |-> "INVAL", dec |-> dec]
    ELSE IF d > DECSIZE - 2 \/ (found /\ j = 0)
    THEN [ret |-> 1, err |-> "OORVAL", dec |-> dec]
    ELSE DecNormalize(s, dig, c, i + 1, IF j > 0 THEN j - 1 ELSE 0, d, found,
                      Append(dec, At(s, c + i)))

DecNormalize(s, dig, c, i, j, d, found, dec) ==
    IF i >= DECSIZE THEN [ret |-> 0, err |-> "", dec |-> dec]
    ELSE IF At(s, c + i) = "." THEN DecNormalize(s, dig, c + 1, i, dig, d, TRUE, dec)
    ELSE IF At(s, c + i) = "" THEN DecPad(s, dig, c, i, IF found THEN j ELSE dig, d, dec)
    ELSE DecChar(s, dig, c, i, j, IF IsDigit(At(s, c + i)) THEN d + 1 ELSE d, found, dec)

\* regexec on a POSIX expression made of characters, ".", "x*", "^" and "$"
RECURSIVE MatchHere(_, _)
RECURSIVE MatchStar(_, _, _)
MatchHere(re, str) ==
    IF re = <<>> THEN TRUE
    ELSE IF re = <<"$">> THEN str = <<>>
    ELSE IF Len(re) >= 2 /\ re[2] = "*" THEN MatchStar(re[1], Tail(Tail(re)), str)
    ELSE IF str # <<>> /\ (re[1] = "." \/ re[1] = str[1])
    THEN MatchHere(Tail(re), Tail(str))
    ELSE FALSE

MatchStar(c, re, str) ==
    \/ MatchHere(re, str)
    \/ /\ str # <<>>
       /\ c = "." \/ c = str[1]
       /\ MatchStar(c, re, Tail(str))

\* regexec(&preq, str, 0, 0, 0) == 0: the expression matches somewhere
RegExec(re, str) ==
    IF re # <<>> /\ re[1] = "^"
    THEN MatchHere(Tail(re), str)
    ELSE \E k \in 1..(Len(str) + 1) : MatchHere(re, SubSeq(str, k, Len(str)))

\* the expression of a YANG pattern as handed to regcomp: anchored at each
\* end unless it begins / ends with ".*" (expressions of two characters or
\* more: the test of the end reads expr + strlen(expr) - 2)
PosixRegex(expr) ==
    (IF SubSeq(expr, 1, 2) = <<".", "*">> THEN <<>> ELSE <<"^">>)
    \o expr
    \o (IF SubSeq(expr, Len(expr) - 1, Len(expr)) = <<".", "*">> THEN <<>> ELSE <<"$">>)

\* validate_pattern: the patterns of the ancestors first, then the own ones
RECURSIVE validate_pattern(_, _)
validate_pattern(str, t) ==
    IF Der(t) # NoType /\ validate_pattern(str, Der(t)) # 0 THEN 1
    ELSE IF \E i \in DOMAIN TypeTab[t].patterns :
               ~RegExec(PosixRegex(TypeTab[t].patterns[i]), str)
    THEN 1
    ELSE 0

\* the length of the run of non-space characters that starts at c
RECURSIVE TokenLen(_, _)
TokenLen(s, c) ==
    IF At(s, c) = "" \/ IsSpace(At(s, c)) THEN 0 ELSE 1 + TokenLen(s, c + 1)

\* the while loop of the LY_TYPE_BITS case, entered with the read position
\* c, the search index i (both 1-based here) and the pointer array so far.
\* The search for a token goes on from the index behind the last match.
RECURSIVE BitsLoop(_, _, _, _, _)
RECURSIVE BitsFind(_, _, _, _, _, _)
\* the search for the token tok, which ends before position cEnd
BitsFind(s, names, cEnd, k, tok, arr) ==
    IF k > Len(names) THEN [ret |-> 1, arr |-> arr]
    ELSE IF names[k] = tok
    THEN BitsLoop(s, names, cEnd, k + 1, [arr EXCEPT ![k] = TRUE])
    ELSE BitsFind(s, names, cEnd, k + 1, tok, arr)

BitsToken(s, names, c1, len, i, arr) ==
    BitsFind(s, names, c1 + len, i, SubSeq(s, c1, c1 + len - 1), arr)

BitsAt(s, names, c1, i, arr) == BitsToken(s, names, c1, TokenLen(s, c1), i, arr)

BitsLoop(s, names, c, i, arr) ==
    IF At(s, c) = "" THEN [ret |-> 0, arr |-> arr]
    ELSE BitsAt(s, names, SkipSpace(s, c), i, arr)

\* the natural bounds the integer cases hand to parse_int / parse_uint
IntBases == {"INT8", "INT16", "INT64"}

UintBases == {"UINT8", "UINT16", "UINT64"}

NaturalMin(base) ==
    CASE base = "INT8" -> -128
      [] base = "INT16" -> -32768
      [] base = "INT64" -> LLONG_MIN
      [] OTHER -> 0

NaturalMax(base) ==
    CASE base = "INT8" -> 127
      [] base = "INT16" -> 32767
      [] base = "INT64" -> LLONG_MAX
      [] base = "UINT8" -> 255
      [] base = "UINT16" -> 65535
      [] base = "UINT64" -> ULLONG_MAX

\* a leaf as calloc leaves it
EmptyLeaf ==
    [value_str |-> NULL, value_type |-> "NONE", value |-> [kind |-> "zero", v |-> 0]]

ValOk(l) == [ret |-> 0, err |-> "", leaf |-> l]

ValFail(e, l) == [ret |-> 1, err |-> e, leaf |-> l]

\* LY_TYPE_BITS behind the loop, r: the pointer array is in the leaf
\* whatever the loop returned
BitsCase(l0, r) ==
    IF r.ret = 0
    THEN ValOk([l0 EXCEPT !.value = [kind |-> "bit", v |-> r.arr]])
    ELSE ValFail("INVAL", [l0 EXCEPT !.value = [kind |-> "bit", v |-> r.arr]])

\* leaf->value is a C union: the pointer leaf->value.enm reads as NULL when
\* the storage holds what calloc left or a number that is zero
ValueIsNull(l) ==
    IF l.value.kind \in {"bit", "string", "enm"} THEN FALSE ELSE l.value.v = 0

\* LY_TYPE_ENUM: the search of the names, then the test of leaf->value.enm
EnumCase(l0, enm, content) ==
    IF content = NULL THEN ValFail("INVAL", l0)
    ELSE IF \E i \in DOMAIN enm : Strcmp(content, enm[i]) = 0
    THEN ValOk([l0 EXCEPT !.value =
                   [kind |-> "enm",
                    v |-> CHOOSE i \in DOMAIN enm :
                             /\ Strcmp(content, enm[i]) = 0
                             /\ \A j \in 1..(i - 1) : Strcmp(content, enm[j]) # 0]])
    ELSE IF ValueIsNull(l0) THEN ValFail("INVAL", l0)
    ELSE ValOk(l0)

\* LY_TYPE_STRING behind the assignment of leaf->value.string
StringCase(l1, t, content) ==
    IF TypeTab[t].length # <<>> /\ validate_length_range(Len(content), t) # 0
    THEN ValFail("OORVAL", l1)
    ELSE IF TypeTab[t].patterns # <<>> /\ validate_pattern(content, t) # 0
    THEN ValFail("INVAL", l1)
    ELSE ValOk(l1)

\* LY_TYPE_INT8 .. LY_TYPE_UINT64 behind parse_int / parse_uint, r
IntCase(l0, t, base, r) ==
    IF r.ret # 0 THEN ValFail(r.err, l0)
    ELSE IF validate_length_range(r.num, t) # 0 THEN ValFail("OORVAL", l0)
    ELSE ValOk([l0 EXCEPT !.value = [kind |-> base, v |-> r.num]])

\* LY_TYPE_DEC64 behind parse_int, r: the range is checked against
\* ((long double)num) / (1 << dig)
Dec64Checked(l0, t, dig, r) ==
    IF r.ret # 0 THEN ValFail(r.err, l0)
    ELSE IF validate_length_range_f(r.num, 2 ^ dig, t, 10 ^ dig) # 0
    THEN ValFail("OORVAL", l0)
    ELSE ValOk([l0 EXCEPT !.value = [kind |-> "DEC64", v |-> r.num]])

\* LY_TYPE_DEC64 behind the normalizing loop, r
Dec64Parsed(l0, t, dig, r) ==
    IF r.ret # 0 THEN ValFail(r.err, l0)
    ELSE Dec64Checked(l0, t, dig, parse_int10(r.dec, LLONG_MIN, LLONG_MAX))

\* LY_TYPE_DEC64, c: the start of the number
Dec64Case(l0, t, dig, content, c) ==
    IF TokenLen(content, c) > DECSIZE THEN ValFail("INVAL", l0)
    ELSE Dec64Parsed(l0, t, dig, DecNormalize(content, dig, c, 0, 0, 0, FALSE, <<>>))

\* the switch of _xml_get_value, l0: the leaf behind the head of the call
ValueSwitch(l0, t, base, content) ==
    CASE base = "BITS" ->
            BitsCase(l0,
                     IF content = NULL
                     THEN [ret |-> 0, arr |-> [k \in DOMAIN TypeTab[LocateDefs(t)].bits |-> FALSE]]
                     ELSE BitsLoop(content, TypeTab[LocateDefs(t)].bits, 1, 1,
                                   [k \in DOMAIN TypeTab[LocateDefs(t)].bits |-> FALSE]))
      [] base = "BOOL" ->
            IF Strcmp(content, <<"t", "r", "u", "e">>) = 0
            THEN ValOk([l0 EXCEPT !.value = [kind |-> "bool", v |-> 1]])
            ELSE ValOk(l0)          \* "else false, so keep it zero"
      [] base = "DEC64" ->
            Dec64Case(l0, t, TypeTab[LocateDefs(t)].dig, content, SkipSpace(content, 1))
      [] base = "ENUM" ->
            EnumCase(l0, TypeTab[LocateDefs(t)].enums, content)
      [] base = "STRING" ->
            StringCase([l0 EXCEPT !.value = [kind |-> "string", v |-> content]], t, content)
      [] base \in IntBases ->
            IntCase(l0, t, base, parse_int(content, NaturalMin(base), NaturalMax(base)))
      [] base \in UintBases ->
            IntCase(l0, t, base, parse_uint(content, NaturalMax(base)))
      [] OTHER -> ValFail("", l0)

\* _xml_get_value for the bases that are no union: the return code, the
\* error logged and the leaf as the call leaves it.  content is
\* xml->content on entry.
XmlGetValueHead(l0, t, content, opts) ==
    IF "FILTER" \in opts /\ content = NULL THEN ValOk(l0)
    ELSE ValueSwitch(l0, t, TypeTab[t].base, content)

XmlGetValue(node, t, content, opts) ==
    XmlGetValueHead([node EXCEPT !.value_str = content, !.value_type = TypeTab[t].base],
                    t, content, opts)

\* the for loop of get_next_union_type from index i on, then the step to
\* the typedef the union derives from
RECURSIVE UnionScan(_, _, _, _)
\* behind the recursive call for a member that is a union itself, r
UnionNested(r, t, i, prev) ==
    IF r.ret # NoType THEN r ELSE UnionScan(t, i + 1, prev, r.found)

UnionMember(m, t, i, prev, found) ==
    IF TypeTab[m].base = "UNION"
    THEN UnionNested(UnionScan(m, 1, prev, found), t, i, prev)
    ELSE IF prev = NoType \/ found THEN [ret |-> m, found |-> found]
    ELSE UnionScan(t, i + 1, prev, found \/ m = prev)

UnionScan(t, i, prev, found) ==
    IF i > Len(TypeTab[t].uni)
    THEN IF Der(t) # NoType THEN UnionScan(Der(t), 1, prev, found)
         ELSE [ret |-> NoType, found |-> found]
    ELSE UnionMember(TypeTab[t].uni[i], t, i, prev, found)

\* get_next_union_type(type, prev_type, &found) called with found = 0
get_next_union_type(t, prev) == UnionScan(t, 1, prev, FALSE).ret

(***************************************************************************)
(* One call of xml_get_value.                                              *)
(***************************************************************************)
MaxTries == 8

LeafTypes ==
    {"L_int8", "L_int16", "L_int64", "L_uint8", "L_uint16", "L_uint64",
     "L_uint8_r", "L_int8_r", "L_pct_r", "L_bool", "L_bits", "L_flags",
     "L_str", "L_str_lp", "L_word", "L_word_p", "L_word_l",
     "U_plain", "U_nested", "U_num", "U_twice", "U_be", "L_enum",
     "L_dec1", "L_dec2", "L_dec1_r", "L_ratio"}

\* the numbers the integer leaves are fed: around every bound and interval
ProbeNumbers ==
    {0 - ULLONG_MAX, LLONG_MIN - 1, LLONG_MIN, -32769, -32768, -129, -128,
     -11, -10, -1, 0, 5, 10, 11, 15, 20, 25, 30, 31, 100, 101, 127, 128, 255,
     256, 32767, 32768, 65535, 65536, LLONG_MAX, LLONG_MAX + 1, ULLONG_MAX,
     ULLONG_MAX + 1}

IntegerTexts ==
    {IntText(n) : n \in ProbeNumbers}
    \cup {<<" ">> \o IntText(n) : n \in ProbeNumbers}
    \cup {IntText(n) \o <<" ">> : n \in ProbeNumbers}
    \cup {IntText(n) \o <<"x">> : n \in ProbeNumbers}
    \cup {<<>>, <<" ">>, <<"-">>, <<"+">>, <<"x">>, <<"+", "5">>,
          <<"0", "x", "1", "a">>, <<"0", "1", "0">>, <<"0", "x">>,
          <<"5", " ", "5">>, <<"-", " ", "5">>}

StringTexts == SeqsUpTo({"a", "b"}, 3)

BitsTexts ==
    {<<>>, <<"a">>, <<"c">>, <<"b", " ", "c">>, <<"a", " ", "b", " ", "c">>,
     <<"b", " ", "a">>, <<"c", " ", "b", " ", "a">>, <<"a", " ">>, <<" ", "a">>,
     <<"a", " ", " ", "c">>, <<"a", " ", "a">>, <<"a", " ", "d">>, <<"a", "b">>,
     <<"d">>, <<" ">>}

BoolTexts ==
    {<<"t", "r", "u", "e">>, <<"f", "a", "l", "s", "e">>, <<>>, <<"x">>,
     <<"1">>, <<"0">>, <<" ", "t", "r", "u", "e">>, <<"t", "r", "u", "e", " ">>,
     <<"t", "r", "u">>, <<"f", "a", "l", "s", "e", "e">>}

UnionTexts ==
    {<<"5">>, <<"1", "5">>, <<"-", "5">>, <<"3", "0", "0">>, <<"a">>, <<"b">>,
     <<"a", "b">>, <<"b", "b">>, <<"b", "a">>, <<"a", " ", "b">>, <<"c">>,
     <<"x">>, <<"5", "x">>}

\* decimal numbers: sign, integer part, digits of the fraction
DecProbes ==
    [neg : BOOLEAN, ip : {0, 1, 3, 10, 11, 20, 5242, 52428, 524288},
     fp : {<<>>, <<"0">>, <<"5">>, <<"0", "0">>, <<"2", "5">>, <<"8", "7">>,
           <<"8", "8">>, <<"5", "0", "0">>, <<"1", "2", "5">>}]

DecText(p) ==
    (IF p.neg THEN <<"-">> ELSE <<>>) \o NatText(p.ip)
    \o (IF p.fp = <<>> THEN <<>> ELSE <<".">> \o p.fp)

DecimalTexts ==
    {DecText(p) : p \in DecProbes}
    \cup {<<>>, <<" ">>, <<"x">>, <<"-">>, <<"1", ".">>, <<".", "5">>,
          <<" ", "1", ".", "5">>, <<"1", ".", "5", " ">>, <<"1", ".", "5", "x">>,
          <<"1", ".", "2", ".", "3">>, <<"+", "1">>, <<"1", "-", "5">>,
          [k \in 1..20 |-> IF k = 20 THEN "1" ELSE "0"],
          [k \in 1..22 |-> "1"]}

\* the contents a leaf of type t is fed.  A missing content (NULL) is fed
\* to a filter, and to a bits leaf, which tests for it.
Inputs(t, opts) ==
    LET base == TypeTab[t].base IN
    (CASE base \in IntBases \cup UintBases -> IntegerTexts
       [] base = "STRING" -> StringTexts
       [] base = "BITS" -> BitsTexts
       [] base = "BOOL" -> BoolTexts
       [] base = "DEC64" -> DecimalTexts
       [] base \in {"UNION", "ENUM"} -> UnionTexts)
    \cup (IF "FILTER" \in opts \/ base = "BITS" THEN {NULL} ELSE {})

\* the call returns r to xml_get_value
Returned(r) ==
    /\ leaf' = r.leaf
    /\ dRet' = r.ret
    /\ dErr' = r.err

\* a base type other than union: the whole call
DecodeScalar ==
    /\ dPc = "call"
    /\ TypeTab[dType].base # "UNION" \/ ("FILTER" \in dOpts /\ dContent = NULL)
    /\ Returned(XmlGetValue(leaf, dType, dContent, dOpts))
    /\ dPc' = "done"
    /\ UNCHANGED <<dType, dContent, dOpts, uType, tried>>
    /\ UNCHANGED notVal

\* LY_TYPE_UNION: the head of the call and the initialisation of the loop
DecodeUnion ==
    /\ dPc = "call"
    /\ TypeTab[dType].base = "UNION"
    /\ ~("FILTER" \in dOpts /\ dContent = NULL)
    /\ leaf' = [leaf EXCEPT !.value_str = dContent, !.value_type = "UNION"]
    /\ uType' = get_next_union_type(dType, NoType)
    /\ dPc' = "union"
    /\ UNCHANGED <<dType, dContent, dOpts, dRet, dErr, tried>>
    /\ UNCHANGED notVal

\* the call for the member uType returns r to the loop
MemberReturned(r) ==
    IF r.ret = 0
    THEN /\ leaf' = [r.leaf EXCEPT !.value_type = TypeTab[uType].base]
         /\ dRet' = 0
         /\ dPc' = "done"
         /\ UNCHANGED uType
    ELSE /\ leaf' = r.leaf
         /\ uType' = get_next_union_type(dType, uType)
         /\ UNCHANGED <<dRet, dPc>>

\* one turn of the loop: the member is called without logging; on success
\* the loop is left, otherwise it steps to the member behind this one
UnionTry ==
    /\ dPc = "union"
    /\ uType # NoType
    /\ Len(tried) < MaxTries
    /\ tried' = Append(tried, uType)
    /\ MemberReturned(XmlGetValue(leaf, uType, leaf.value_str, dOpts))
    /\ UNCHANGED <<dType, dContent, dOpts, dErr>>
    /\ UNCHANGED notVal

\* the loop ran out of members
UnionFail ==
    /\ dPc = "union"
    /\ uType = NoType
    /\ dRet' = 1
    /\ dErr' = "INVAL"
    /\ dPc' = "done"
    /\ UNCHANGED <<dType, dContent, dOpts, leaf, uType, tried>>
    /\ UNCHANGED notVal

NextVal ==
    \/ DecodeScalar
    \/ DecodeUnion
    \/ UnionTry
    \/ UnionFail

(***************************************************************************)
(* The schema the data parser is run against (struct lys_node).            *)
(***************************************************************************)
\* a null pointer to a schema node
NoSchema == "<noschema>"

\* module m: its namespace, and a namespace no module of the context has
NsM == "urn:m"

NsX == "urn:x"

NsBig == "urn:big"

\* an element without namespace (xml->ns == NULL)
NoNs == "<nons>"

\* a struct lys_node: nodetype, name, parent, children in schema order,
\* and what the parser reads of the payload
Sn(nodetype, parent, child) ==
    [nodetype |-> nodetype, parent |-> parent, child |-> child, ns |-> NsM,
     type |-> NoType, userordered |-> FALSE, config_r |-> FALSE,
     iffeature |-> {}, keys |-> <<>>, target |-> NoSchema, mandatory |-> FALSE]

\* module m {
\*   container c {
\*     leaf l { type string; }           leaf n8 { type int8; }
\*     leaf-list ll { type string; ordered-by user; }
\*     list lst { key k; leaf k { type string; } leaf v { type string; } }
\*     anyxml ax;
\*     choice ch { case ca { leaf a1; leaf a2; } case cb { leaf b1; }
\*                 leaf-list sl; leaf sf; }
\*     choice ch2 { case cx { leaf x1; } }
\*     leaf st { config false; }
\*     leaf ref { type leafref { path "../l"; } }
\*     leaf rr { type leafref { path "../ref"; } }
\*     leaf iid { type instance-identifier; }
\*   }
\*   leaf t { type string; }
\*   feature F;  container ct { if-feature F; }
\*   container cm { leaf m1 { type string; mandatory true; } }
\* }
SchemaTab ==
       "c" :> Sn("CONTAINER", NoSchema,
                 <<"l", "n8", "ll", "lst", "ax", "ch", "ch2", "st", "ref", "rr", "iid">>)
    @@ "l" :> [Sn("LEAF", "c", <<>>) EXCEPT !.type = "L_str"]
    @@ "n8" :> [Sn("LEAF", "c", <<>>) EXCEPT !.type = "L_int8"]
    @@ "ll" :> [Sn("LEAFLIST", "c", <<>>) EXCEPT !.type = "L_str", !.userordered = TRUE]
    @@ "lst" :> [Sn("LIST", "c", <<"k", "v">>) EXCEPT !.keys = <<"k">>]
    @@ "k" :> [Sn("LEAF", "lst", <<>>) EXCEPT !.type = "L_str"]
    @@ "v" :> [Sn("LEAF", "lst", <<>>) EXCEPT !.type = "L_str"]
    @@ "ax" :> Sn("ANYXML", "c", <<>>)
    @@ "ch" :> Sn("CHOICE", "c", <<"ca", "cb", "sl", "sf">>)
    @@ "ca" :> Sn("CASE", "ch", <<"a1", "a2">>)
    @@ "a1" :> [Sn("LEAF", "ca", <<>>) EXCEPT !.type = "L_str"]
    @@ "a2" :> [Sn("LEAF", "ca", <<>>) EXCEPT !.type = "L_str"]
    @@ "cb" :> Sn("CASE", "ch", <<"b1">>)
    @@ "b1" :> [Sn("LEAF", "cb", <<>>) EXCEPT !.type = "L_str"]
    @@ "sl" :> [Sn("LEAFLIST", "ch", <<>>) EXCEPT !.type = "L_str"]
    @@ "sf" :> [Sn("LEAF", "ch", <<>>) EXCEPT !.type = "L_str"]
    @@ "ch2" :> Sn("CHOICE", "c", <<"cx">>)
    @@ "cx" :> Sn("CASE", "ch2", <<"x1">>)
    @@ "x1" :> [Sn("LEAF", "cx", <<>>) EXCEPT !.type = "L_str"]
    @@ "st" :> [Sn("LEAF", "c", <<>>) EXCEPT !.type = "L_str", !.config_r = TRUE]
    @@ "ref" :> [Sn("LEAF", "c", <<>>) EXCEPT !.type = "L_ref", !.target = "l"]
    @@ "rr" :> [Sn("LEAF", "c", <<>>) EXCEPT !.type = "L_rr", !.target = "ref"]
    @@ "iid" :> [Sn("LEAF", "c", <<>>) EXCEPT !.type = "L_iid"]
    @@ "t" :> [Sn("LEAF", NoSchema, <<>>) EXCEPT !.type = "L_str"]
    @@ "ct" :> [Sn("CONTAINER", NoSchema, <<>>) EXCEPT !.iffeature = {"F"}]
    @@ "cm" :> Sn("CONTAINER", NoSchema, <<"m1">>)
    @@ "m1" :> [Sn("LEAF", "cm", <<>>) EXCEPT !.type = "L_str", !.mandatory = TRUE]

\* ctx->models.list[0]->data: the top-level nodes of module m
ModuleData == <<"c", "t", "ct", "cm">>

FeatureNames == {"F"}

\* the name of a schema node (the names of the schema are its keys here)
SName(sn) == sn

\* ly_ctx_get_module_by_ns(ctx, ns, NULL) != NULL
ly_ctx_get_module_by_ns(ns) == ns = NsM

\* xml_data_search_schemanode(xml, start): the first data node that the
\* element matches among the siblings list, cases and choices entered
RECURSIVE xml_data_search_schemanode(_, _, _)
SearchInside(aux, name, ns, rest) ==
    IF aux # NoSchema THEN aux ELSE xml_data_search_schemanode(name, ns, rest)

xml_data_search_schemanode(name, ns, list) ==
    IF list = <<>> THEN NoSchema
    ELSE IF SchemaTab[Head(list)].nodetype = "GROUPING"
    THEN xml_data_search_schemanode(name, ns, Tail(list))
    ELSE IF SchemaTab[Head(list)].nodetype \in {"CHOICE", "CASE", "USES"}
    THEN SearchInside(xml_data_search_schemanode(name, ns, SchemaTab[Head(list)].child),
                      name, ns, Tail(list))
    ELSE IF SName(Head(list)) = name /\ SchemaTab[Head(list)].ns = ns
    THEN Head(list)
    ELSE xml_data_search_schemanode(name, ns, Tail(list))

\* the search among the top-level nodes of the module with the namespace
RECURSIVE TopLevelByName(_, _)
TopLevelByName(name, list) ==
    IF list = <<>> THEN NoSchema
    ELSE IF SName(Head(list)) = name THEN Head(list)
    ELSE TopLevelByName(name, Tail(list))

TopLevelSchema(name, ns) ==
    IF ns = NsM THEN TopLevelByName(name, ModuleData) ELSE NoSchema

\* lys_is_disabled(schema, 2): an if-feature of the node is not enabled
lys_is_disabled_never(sn, enabled) == FALSE

lys_is_disabled(sn, enabled) == ~(SchemaTab[sn].iffeature \subseteq enabled)

(***************************************************************************)
(* The XML tree the data parser reads (struct lyxml_elem).  An element is  *)
(* addressed by its path of sibling positions from the root's children;    *)
(* next is the position behind, the first element's prev is the last one.  *)
(***************************************************************************)
LY_NSYANG == "urn:ietf:params:xml:ns:yang:1"

\* an attribute of an element; type is LYXML_ATTR_STD or LYXML_ATTR_NS
XAttr(type, name, ns, value) == [type |-> type, name |-> name, ns |-> ns, value |-> value]

\* an element
XElem(name, ns, content, attr, child) ==
    [name |-> name, ns |-> ns, content |-> content, attr |-> attr, child |-> child]

\* the sibling list the element at the path stands in
RECURSIVE XSiblings(_, _)
XSiblings(tree, path) ==
    IF Len(path) = 1 THEN tree ELSE XSiblings(tree[Head(path)].child, Tail(path))

XAt(tree, path) == XSiblings(tree, path)[Last(path)]

\* the tree with the sibling list at the path replaced
RECURSIVE XReplace(_, _, _)
XReplace(tree, path, list) ==
    IF Len(path) = 1 THEN list
    ELSE [tree EXCEPT ![Head(path)].child = XReplace(@, Tail(path), list)]

XSet(tree, path, elem) ==
    XReplace(tree, path, [XSiblings(tree, path) EXCEPT ![Last(path)] = elem])

\* xml->next != NULL
XHasNext(tree, path) == Last(path) < Len(XSiblings(tree, path))

XNext(path) == [path EXCEPT ![Len(path)] = @ + 1]

RemoveAt(list, i) == SubSeq(list, 1, i - 1) \o SubSeq(list, i + 1, Len(list))

\* lyxml_unlink_elem(ctx, xml, 1): the element leaves its sibling list
lyxml_unlink_elem(tree, path) ==
    XReplace(tree, path, RemoveAt(XSiblings(tree, path), Last(path)))

\* xml->prev as a path into the tree the element has been unlinked from:
\* the element before, for the first element the last one, and the empty
\* path for an only child, whose prev is the element itself
XPrevUnlinked(tree, path) ==
    IF Len(XSiblings(tree, path)) = 1 THEN <<>>
    ELSE IF Last(path) > 1 THEN [path EXCEPT ![Len(path)] = @ - 1]
    ELSE [path EXCEPT ![Len(path)] = Len(XSiblings(tree, path)) - 1]

\* lyxml_get_ns(xml, prefix): the namespace the prefix is bound to by the
\* element or, failing that, by its ancestors; NoNs if it is unbound
RECURSIVE NsAmong(_, _)
NsAmong(attr, prefix) ==
    IF attr = <<>> THEN NoNs
    ELSE IF Head(attr).type = "NS" /\ Head(attr).name = prefix THEN Head(attr).value
    ELSE NsAmong(Tail(attr), prefix)

RECURSIVE lyxml_get_ns(_, _, _)
NsOrParent(found, tree, path, prefix) ==
    IF found # NoNs \/ Len(path) = 1 THEN found
    ELSE lyxml_get_ns(tree, SubSeq(path, 1, Len(path) - 1), prefix)

lyxml_get_ns(tree, path, prefix) ==
    NsOrParent(NsAmong(XAt(tree, path).attr, prefix), tree, path, prefix)

\* mod->name of the module with the namespace; NULL if there is none
ModuleNameByNs(ns) ==
    IF ns = NsM THEN <<"m">>
    ELSE IF ns = NsBig THEN <<"b", "i", "g">>
    ELSE NULL

(***************************************************************************)
(* transform_data_xml2json: the prefixes of a path value are replaced by   *)
(* module names.  Positions are indices into the content, in is the first  *)
(* position not yet copied.                                                *)
(***************************************************************************)
IdStart ==
    {"a", "b", "c", "d", "e", "f", "g", "h", "i", "j", "k", "l", "m", "n", "o",
     "p", "q", "r", "s", "t", "u", "v", "w", "x", "y", "z", "_"}

IdRest == IdStart \cup {"0", "1", "2", "3", "4", "5", "6", "7", "8", "9", "-", "."}

\* strchr(in, ':'): the position of the colon, 0 if there is none
RECURSIVE Strchr(_, _, _)
Strchr(c, i, ch) ==
    IF i > Len(c) THEN 0 ELSE IF c[i] = ch THEN i ELSE Strchr(c, i + 1, ch)

\* strpbrk_backwards(s, "/ [", s_len): backwards from s over at most s_len
\* characters (s_len is unsigned: -1 is no limit); the position of the
\* delimiter, or where the walk stopped, or 0 when it left the buffer
RECURSIVE strpbrk_backwards(_, _, _)
strpbrk_backwards(c, s, s_len) ==
    IF s_len = 0 THEN s
    ELSE IF s < 1 THEN 0
    ELSE IF c[s] \in {"/", " ", "["} THEN s
    ELSE strpbrk_backwards(c, s - 1, s_len - 1)

\* parse_identifier(id): the length of the identifier that starts at id
RECURSIVE IdentRest(_, _)
IdentRest(c, i) ==
    IF i <= Len(c) /\ c[i] \in IdRest THEN 1 + IdentRest(c, i + 1) ELSE 0

parse_identifier(c, id) ==
    IF id <= Len(c) /\ c[id] \in IdStart THEN 1 + IdentRest(c, id + 1) ELSE 0

XmlJsonFail(err) ==
    [ok |-> FALSE, out |-> NULL, err |-> err, size |-> 0, used |-> 0, over |-> FALSE]

\* the writes of one round end at out[used - 1] of a buffer of size bytes
Xml2JsonWrote(r, size, used) == [r EXCEPT !.over = @ \/ used > size]

OutSize_growonly(size, name_len, id_len) ==
    IF name_len > id_len THEN size + name_len - id_len ELSE size

\* out_size += strlen(mod->name) - id_len
OutSize(size, name_len, id_len) == size + name_len - id_len

RECURSIVE Xml2JsonLoop(_, _, _, _, _, _)
\* one prefix at id (behind a delimiter the walk found), its colon at col
Xml2JsonPrefix(tree, path, c, in, out, size, col, id, name) ==
    IF parse_identifier(c, id) < col - id THEN XmlJsonFail("INCHAR")
    ELSE IF name = NULL THEN XmlJsonFail("SPEC")
    ELSE Xml2JsonWrote(
            Xml2JsonLoop(tree, path, c, col + 1,
                         out \o SubSeq(c, in, id - 1) \o name \o <<":">>,
                         OutSize(size, Len(name), col - id)),
            OutSize(size, Len(name), col - id),
            Len(out) + (id - in) + Len(name) + 1)

Xml2JsonId(c, id) == IF c[id] \in {"/", " ", "["} THEN id + 1 ELSE id

Xml2JsonAt(tree, path, c, in, out, size, col, id) ==
    Xml2JsonPrefix(tree, path, c, in, out, size, col, id,
                   ModuleNameByNs(lyxml_get_ns(tree, path, SubSeq(c, id, col - 1))))

Xml2JsonCol(tree, path, c, in, out, size, col) ==
    IF col = 0
    THEN [ok |-> TRUE, out |-> out \o SubSeq(c, in, Len(c)), err |-> "",
          size |-> size, used |-> Len(out) + (Len(c) - in + 1) + 1,
          over |-> Len(out) + (Len(c) - in + 1) + 1 > size]
    ELSE IF strpbrk_backwards(c, col - 1, (col - in) - 1) = 0
    THEN XmlJsonFail("UB")      \* a read before the start of the value
    ELSE Xml2JsonAt(tree, path, c, in, out, size, col,
                    Xml2JsonId(c, strpbrk_backwards(c, col - 1, (col - in) - 1)))

Xml2JsonLoop(tree, path, c, in, out, size) ==
    Xml2JsonCol(tree, path, c, in, out, size, Strchr(c, in, ":"))

\* the element at the path holds the value c
transform_data_xml2json(tree, path, c) ==
    Xml2JsonLoop(tree, path, c, 1, <<>>, Len(c) + 1)

(***************************************************************************)
(* The data tree (struct lyd_node).  A pointer is the index of the node    *)
(* in the sequence of all nodes allocated so far, 0 is the null pointer.   *)
(***************************************************************************)
\* calloc(1, sizeof *result); unresolved stands for the bits
\* LY_TYPE_INST_UNRES and LY_TYPE_LEAFREF_UNRES of value_type
NewNode ==
    [schema |-> NoSchema, parent |-> 0, child |-> 0, next |-> 0, prev |-> 0,
     lprev |-> 0, lnext |-> 0, value_str |-> NULL, value_type |-> "NONE",
     value |-> [kind |-> "zero", v |-> 0], unresolved |-> "", attr |-> <<>>,
     freed |-> FALSE]

\* for (diter = from; diter->prev != target; diter = diter->prev);
\* 0 stands for a walk that does not end
RECURSIVE WalkToPrev(_, _, _, _)
WalkToPrev(ns, diter, target, fuel) ==
    IF ns[diter].prev = target THEN diter
    ELSE IF fuel = 0 THEN 0
    ELSE WalkToPrev(ns, ns[diter].prev, target, fuel - 1)

\* result->prev = prev; prev->next = result; and the "last" pointer fixed
LinkBehind_nofix(ns, r, prev, diter) ==
    [ns EXCEPT ![r].prev = prev, ![prev].next = r]

LinkBehind(ns, r, prev, diter) ==
    [[ns EXCEPT ![r].prev = prev, ![prev].next = r] EXCEPT ![diter].prev = r]

\* lines 894-908 for the node r just allocated
LinkParent(ns, r, parent) ==
    IF parent # 0 /\ ns[parent].child = 0
    THEN [ns EXCEPT ![r].parent = parent, ![parent].child = r]
    ELSE [ns EXCEPT ![r].parent = parent]

LinkNode(ns, r, parent, prev, schema) ==
    [(IF prev # 0
      THEN LinkBehind(LinkParent(ns, r, parent), r, prev, WalkToPrev(ns, prev, prev, Len(ns)))
      ELSE [LinkParent(ns, r, parent) EXCEPT ![r].prev = r])
     EXCEPT ![r].schema = schema]

\* the nearest earlier sibling of r with the schema of r, walking prev
\* from r->prev until r is met again
RECURSIVE PrevInstance(_, _, _, _)
PrevInstance(ns, r, diter, fuel) ==
    IF diter = r \/ diter = 0 \/ fuel = 0 THEN 0
    ELSE IF ns[diter].schema = ns[r].schema THEN diter
    ELSE PrevInstance(ns, r, ns[diter].prev, fuel - 1)

\* lnext/lprev of the instances of one list or leaf-list
LinkInstance(ns, r, diter) ==
    IF diter = 0 THEN ns
    ELSE [ns EXCEPT ![diter].lnext = r, ![r].lprev = diter]

\* the nodes of the subtree below and with n
RECURSIVE Subtree(_, _, _)
RECURSIVE SiblingsFrom(_, _, _)
SiblingsFrom(ns, n, fuel) ==
    IF n = 0 \/ fuel = 0 THEN {} ELSE Subtree(ns, n, fuel - 1) \cup SiblingsFrom(ns, ns[n].next, fuel - 1)

Subtree(ns, n, fuel) ==
    IF n = 0 THEN {} ELSE {n} \cup (IF fuel = 0 THEN {} ELSE SiblingsFrom(ns, ns[n].child, fuel))

(***************************************************************************)
(* xml_parse_data: the checks on an element before its node is allocated.  *)
(***************************************************************************)
\* the element has no schema node: an error, or the element is ignored
NoSchemaFails_strictonly(opts, ns) == "STRICT" \in opts

NoSchemaFails(opts, ns) == "STRICT" \in opts \/ ly_ctx_get_module_by_ns(ns)

\* the attribute is the standard attribute name of the YANG namespace
IsYangAttr(a, name) ==
    /\ a.type = "STD"
    /\ a.ns # NoNs
    /\ a.name = name
    /\ a.ns = LY_NSYANG

\* the loop over the insert attributes: the error, or i behind the loop
RECURSIVE InsertLoop(_, _, _)
InsertLoop(attr, i, userordered) ==
    IF attr = <<>> THEN [err |-> "", i |-> i]
    ELSE IF ~IsYangAttr(Head(attr), "insert") THEN InsertLoop(Tail(attr), i, userordered)
    ELSE IF ~userordered THEN [err |-> "INATTR", i |-> i]
    ELSE IF i # 0 THEN [err |-> "TOOMANY", i |-> i]
    ELSE IF Head(attr).value \in {"first", "last"} THEN InsertLoop(Tail(attr), 1, userordered)
    ELSE IF Head(attr).value \in {"before", "after"} THEN InsertLoop(Tail(attr), 2, userordered)
    ELSE [err |-> "INARG", i |-> i]

\* the loop over the value attributes
RECURSIVE ValueLoop(_, _)
ValueLoop(attr, i) ==
    IF attr = <<>> THEN [err |-> "", i |-> i]
    ELSE IF ~IsYangAttr(Head(attr), "value") THEN ValueLoop(Tail(attr), i)
    ELSE IF i < 2 THEN [err |-> "INATTR", i |-> i]
    ELSE ValueLoop(Tail(attr), i + 1)

\* behind both loops, without the check for the missing value attribute
InsertCount_nomissing(r) ==
    IF r.err # "" THEN r.err
    ELSE IF r.i > 3 THEN "TOOMANY"
    ELSE ""

\* behind both loops
InsertCount(r) ==
    IF r.err # "" THEN r.err
    ELSE IF r.i = 2 THEN "MISSATTR"
    ELSE IF r.i > 3 THEN "TOOMANY"
    ELSE ""

InsertValues(attr, r) == IF r.err # "" THEN r.err ELSE InsertCount(ValueLoop(attr, r.i))

\* lines 814-867: the error of the insert and value attributes, "" for none
InsertCheck(attr, userordered) == InsertValues(attr, InsertLoop(attr, 0, userordered))

\* the schema node of the element below the data node parent
FindSchema(ns, elem, parent) ==
    IF parent = 0 THEN TopLevelSchema(elem.name, elem.ns)
    ELSE xml_data_search_schemanode(elem.name, elem.ns, SchemaTab[ns[parent].schema].child)

DataNodeTypes == {"CONTAINER", "LEAF", "LEAFLIST", "LIST", "ANYXML"}

Rejected(errno, code) == [kind |-> "fail", errno |-> errno, err |-> code, schema |-> NoSchema]

\* the element has the schema node: lines 802-893
CheckSchema(elem, schema, opts, feats) ==
    IF lys_is_disabled(schema, feats) THEN Rejected("LY_EVALID", "INELEM")
    ELSE IF "EDIT" \in opts /\ SchemaTab[schema].config_r THEN Rejected("LY_EVALID", "INELEM")
    ELSE IF "EDIT" \in opts /\ InsertCheck(elem.attr, SchemaTab[schema].userordered) # ""
    THEN Rejected("LY_EVALID", InsertCheck(elem.attr, SchemaTab[schema].userordered))
    ELSE IF SchemaTab[schema].nodetype \notin DataNodeTypes THEN Rejected("LY_EINT", "")
    ELSE [kind |-> "alloc", errno |-> "LY_SUCCESS", err |-> "", schema |-> schema]

\* lines 766-800: what becomes of the element: the call fails, the element
\* is ignored, or a node is allocated for the schema node
CheckFound(elem, schema, opts, feats) ==
    IF schema = NoSchema
    THEN IF NoSchemaFails(opts, elem.ns)
         THEN Rejected("LY_EVALID", "INELEM")
         ELSE [kind |-> "skip", errno |-> "LY_SUCCESS", err |-> "", schema |-> NoSchema]
    ELSE CheckSchema(elem, schema, opts, feats)

CheckElement(ns, elem, parent, opts, feats) ==
    IF elem.ns = NoNs THEN Rejected("LY_EVALID", "XML_MISS")
    ELSE CheckFound(elem, FindSchema(ns, elem, parent), opts, feats)

HaveChildren(schema) == SchemaTab[schema].nodetype \in {"CONTAINER", "LIST"}

(***************************************************************************)
(* xml_get_value as xml_parse_data calls it: the cases LY_TYPE_INST and    *)
(* LY_TYPE_LEAFREF read the element and the queue of unresolved leaves,    *)
(* every other base is XmlGetValue above (no leaf of the schema here has a *)
(* union type).  add: the leaf is put on the queue; spin: the do-while     *)
(* loop over the leafref targets reads the same type on every turn.        *)
(***************************************************************************)
GotValue(r) == [ret |-> r.ret, err |-> r.err, leaf |-> r.leaf, add |-> FALSE, spin |-> FALSE]

Deferred(l, opts, flag) ==
    IF opts \cap {"EDIT", "FILTER"} # {}
    THEN [ret |-> 0, err |-> "", leaf |-> [l EXCEPT !.unresolved = flag],
          add |-> FALSE, spin |-> FALSE]
    ELSE [ret |-> 0, err |-> "", leaf |-> l, add |-> TRUE, spin |-> FALSE]

\* LY_TYPE_INST behind the transformation tr of the value
InstCase(l, tr, opts) ==
    IF ~tr.ok
    THEN [ret |-> 1, err |-> tr.err, leaf |-> [l EXCEPT !.value_str = NULL],
          add |-> FALSE, spin |-> FALSE]
    ELSE Deferred([l EXCEPT !.value_str = tr.out], opts, "INST_UNRES")

\* LY_TYPE_LEAFREF: with EDIT or FILTER the type of the target of the
\* leaf's own schema node is read until its base is no leafref
LeafrefCase(l, target, opts) ==
    IF opts \cap {"EDIT", "FILTER"} = {} THEN Deferred(l, opts, "")
    ELSE IF TypeTab[SchemaTab[target].type].base = "LEAFREF"
    THEN [ret |-> 0, err |-> "", leaf |-> l, add |-> FALSE, spin |-> TRUE]
    ELSE Deferred([l EXCEPT !.value_type = TypeTab[SchemaTab[target].type].base],
                  opts, "LEAFREF_UNRES")

RefSwitch(l, base, tree, path, content, opts) ==
    IF "FILTER" \in opts /\ content = NULL
    THEN [ret |-> 0, err |-> "", leaf |-> l, add |-> FALSE, spin |-> FALSE]
    ELSE IF content = NULL
    THEN [ret |-> 1, err |-> "INVAL", leaf |-> l, add |-> FALSE, spin |-> FALSE]
    ELSE IF base = "INST"
    THEN InstCase(l, transform_data_xml2json(tree, path, content), opts)
    ELSE LeafrefCase(l, SchemaTab[l.schema].target, opts)

xml_get_value(node, t, tree, path, content, opts) ==
    IF TypeTab[t].base \in {"INST", "LEAFREF"}
    THEN RefSwitch([node EXCEPT !.value_str = content, !.value_type = TypeTab[t].base],
                   TypeTab[t].base, tree, path, content, opts)
    ELSE GotValue(XmlGetValue(node, t, content, opts))

(***************************************************************************)
(* xml_parse_data.  One activation is a frame: its arguments xml, parent   *)
(* and prev, its locals result, schema and havechildren, and where it      *)
(* stands:                                                                 *)
(*   "enter"    at the head of the function                                *)
(*   "lref"     inside the do-while loop of a leafref                      *)
(*   "children" before the children are processed                          *)
(*   "child"    the call for the first child has been made                 *)
(*   "validate" behind the children                                        *)
(*   "siblings", "sibling"  at the label, and the call has been made       *)
(*   "error", "clear"       at the labels error and cleargotosiblings      *)
(* xml is a path into xmlTree; the empty path is the element an anyxml     *)
(* node has taken out of the tree when it had no sibling.                  *)
(***************************************************************************)
Frame(xml, parent, prev) ==
    [xml |-> xml, parent |-> parent, prev |-> prev, result |-> 0, schema |-> NoSchema,
     havechildren |-> FALSE, pc |-> "enter", turns |-> 0]

Top == calls[Len(calls)]

Stands(pc) == calls # <<>> /\ Top.pc = pc

\* the top frame continues at pc
Goto(pc) == calls' = [calls EXCEPT ![Len(calls)].pc = pc]

\* LOGVAL(code, ...)
LogVal(code) ==
    /\ ly_errno' = "LY_EVALID"
    /\ ly_vecode' = code

\* the top frame returns value: to its caller, or to xml_read_data
Return(value) ==
    /\ calls' = SubSeq(calls, 1, Len(calls) - 1)
    /\ IF Len(calls) = 1
       THEN rResult' = value /\ rPc' = "parsed"
       ELSE UNCHANGED <<rResult, rPc>>

\* the element of the frame
FrameElem(f) == IF f.xml = <<>> THEN nodes[f.result].value.v ELSE XAt(xmlTree, f.xml)

\* the bound of the turns of a loop that does not end
MaxTurns == 2

\* the type specific processing of a leaf or leaf-list r, v being what
\* xml_get_value returned for it
Valued(f, r, schema, ns, v) ==
    /\ nodes' = IF v.ret = 0 /\ ~v.spin /\ SchemaTab[schema].nodetype = "LEAFLIST"
                THEN LinkInstance([ns EXCEPT ![r] = v.leaf], r,
                                  PrevInstance(ns, r, ns[r].prev, Len(ns)))
                ELSE [ns EXCEPT ![r] = v.leaf]
    /\ xmlTree' = XSet(xmlTree, f.xml, [XAt(xmlTree, f.xml) EXCEPT !.content = NULL])
    /\ unres' = IF v.add THEN Append(unres, r) ELSE unres
    /\ IF v.err # "" THEN LogVal(v.err) ELSE UNCHANGED <<ly_errno, ly_vecode>>
    /\ calls' = [calls EXCEPT ![Len(calls)] =
                    [f EXCEPT !.result = r, !.schema = schema, !.havechildren = FALSE,
                              !.pc = IF v.spin THEN "lref"
                                     ELSE IF v.ret # 0 THEN "error" ELSE "children"]]

\* lines 869-949 for the node r, linked already in ns
Allocated(f, r, schema, ns) ==
    IF SchemaTab[schema].nodetype \in {"LEAF", "LEAFLIST"}
    THEN Valued(f, r, schema, ns,
                xml_get_value(ns[r], SchemaTab[schema].type, xmlTree, f.xml,
                              XAt(xmlTree, f.xml).content, options))
    ELSE /\ nodes' = IF SchemaTab[schema].nodetype = "LIST"
                     THEN LinkInstance(ns, r, PrevInstance(ns, r, ns[r].prev, Len(ns)))
                     ELSE IF SchemaTab[schema].nodetype = "ANYXML" /\ "FILTER" \notin options
                     THEN [ns EXCEPT ![r].value = [kind |-> "xml", v |-> XAt(xmlTree, f.xml)]]
                     ELSE ns
         /\ xmlTree' = IF SchemaTab[schema].nodetype = "ANYXML" /\ "FILTER" \notin options
                       THEN lyxml_unlink_elem(xmlTree, f.xml)
                       ELSE xmlTree
         /\ calls' = [calls EXCEPT ![Len(calls)] =
                         [f EXCEPT !.result = r, !.schema = schema,
                                   !.havechildren = HaveChildren(schema),
                                   !.pc = "children",
                                   !.xml = IF SchemaTab[schema].nodetype = "ANYXML"
                                              /\ "FILTER" \notin options
                                           THEN XPrevUnlinked(xmlTree, f.xml)
                                           ELSE f.xml]]
         /\ UNCHANGED <<unres, ly_errno, ly_vecode>>

\* what the checks of the element say, chk
Checked(f, chk) ==
    CASE chk.kind = "fail" ->
            /\ ly_errno' = chk.errno
            /\ ly_vecode' = chk.err
            /\ Return(0)
            /\ UNCHANGED <<nodes, xmlTree, unres>>
      [] chk.kind = "skip" ->
            /\ Goto("siblings")
            /\ UNCHANGED <<nodes, xmlTree, unres, ly_errno, ly_vecode, rResult, rPc>>
      [] chk.kind = "alloc" ->
            /\ Allocated(f, Len(nodes) + 1, chk.schema,
                         LinkNode(Append(nodes, NewNode), Len(nodes) + 1, f.parent, f.prev,
                                  chk.schema))
            /\ UNCHANGED <<rResult, rPc>>

\* xml_parse_data from its head to the processing of the children
ParseElement ==
    /\ Stands("enter")
    /\ Checked(Top, CheckElement(nodes, XAt(xmlTree, Top.xml), Top.parent, options, features))
    /\ UNCHANGED <<input, options, features, history>>
    /\ UNCHANGED notParse

\* one more turn of the do-while loop of a leafref
LeafrefTurn ==
    /\ Stands("lref")
    /\ Top.turns < MaxTurns
    /\ calls' = [calls EXCEPT ![Len(calls)].turns = @ + 1]
    /\ UNCHANGED <<input, xmlTree, nodes, options, features, ly_errno, ly_vecode, unres,
                   rPc, rResult, history>>
    /\ UNCHANGED notParse

\* the loop has no side effect, so a build may take it to end: the base
\* read last is stored with the unresolved flag and the leaf is kept
LeafrefLeave ==
    /\ Stands("lref")
    /\ nodes' = [nodes EXCEPT
                    ![Top.result].value_type =
                        TypeTab[SchemaTab[SchemaTab[Top.schema].target].type].base,
                    ![Top.result].unresolved = "LEAFREF_UNRES"]
    /\ Goto("children")
    /\ UNCHANGED <<input, xmlTree, options, features, ly_errno, ly_vecode, unres,
                   rPc, rResult, history>>
    /\ UNCHANGED notParse

\* the recursive call for the first child
ProcessChildren ==
    /\ Stands("children")
    /\ Top.havechildren
    /\ FrameElem(Top).child # <<>>
    /\ calls' = Append([calls EXCEPT ![Len(calls)].pc = "child"],
                       Frame(Top.xml \o <<1>>, Top.result, 0))
    /\ UNCHANGED <<input, xmlTree, nodes, options, features, ly_errno, ly_vecode, unres,
                   rPc, rResult, history>>
    /\ UNCHANGED notParse

\* behind the call for the children: if (ly_errno) goto error
ChildrenFailed ==
    /\ Stands("child")
    /\ ly_errno # "LY_SUCCESS"
    /\ Goto("error")
    /\ UNCHANGED <<input, xmlTree, nodes, options, features, ly_errno, ly_vecode, unres,
                   rPc, rResult, history>>
    /\ UNCHANGED notParse

(***************************************************************************)
(* Taking a node out of the tree.                                          *)
(***************************************************************************)
\* the unlinking at the labels error and cleargotosiblings; diter is where
\* the walk for the "last" pointer ends
UnlinkFix(ns, r, prev, diter) ==
    [[ns EXCEPT ![prev].next = 0, ![r].prev = r] EXCEPT ![diter].prev = prev]

UnlinkParent(ns, r, parent) ==
    IF parent # 0 /\ ns[parent].child = r THEN [ns EXCEPT ![parent].child = 0] ELSE ns

UnlinkResult(ns, r, parent, prev) ==
    IF prev # 0
    THEN UnlinkFix(UnlinkParent(ns, r, parent), r, prev,
                   WalkToPrev([ns EXCEPT ![r].prev = r], prev, r, Len(ns)))
    ELSE UnlinkParent(ns, r, parent)

\* lyd_unlink(n): n leaves the chain of the instances of its schema node,
\* its sibling list and its parent
UnlinkInstance(ns, n) ==
    [i \in DOMAIN ns |->
        IF i = ns[n].lprev /\ i = ns[n].lnext
        THEN [ns[i] EXCEPT !.lnext = ns[n].lnext, !.lprev = ns[n].lprev]
        ELSE IF i = ns[n].lprev THEN [ns[i] EXCEPT !.lnext = ns[n].lnext]
        ELSE IF i = ns[n].lnext THEN [ns[i] EXCEPT !.lprev = ns[n].lprev]
        ELSE ns[i]]

UnlinkSiblings(ns, n, head) ==
    [i \in DOMAIN ns |->
        IF i = n THEN [ns[i] EXCEPT !.next = 0, !.prev = n, !.parent = 0]
        ELSE [ns[i] EXCEPT
                 !.next = IF @ = n THEN ns[n].next ELSE @,
                 !.prev = IF @ = n /\ (i = ns[n].next \/ (ns[n].next = 0 /\ i = head))
                          THEN ns[n].prev ELSE @,
                 !.child = IF @ = n /\ i = ns[n].parent THEN ns[n].next ELSE @]]

lyd_unlink(ns, n) ==
    UnlinkSiblings(UnlinkInstance(ns, n), n,
                   IF ns[n].next = 0 /\ ns[n].prev # n
                   THEN WalkToPrev(ns, ns[n].prev, n, Len(ns)) ELSE 0)

\* lyd_free(n): the subtree of n is freed and n is unlinked
MarkFreed(ns, set) == [i \in DOMAIN ns |-> IF i \in set THEN [ns[i] EXCEPT !.freed = TRUE] ELSE ns[i]]

lyd_free(ns, n) == MarkFreed(lyd_unlink(ns, n), Subtree(ns, n, Len(ns)))

(***************************************************************************)
(* The validation checks of xml_parse_data behind the children.            *)
(***************************************************************************)
\* the children of a node, walking next from the first child
RECURSIVE NextWalk(_, _, _)
NextWalk(ns, n, fuel) ==
    IF n = 0 \/ fuel = 0 THEN <<>> ELSE <<n>> \o NextWalk(ns, ns[n].next, fuel - 1)

ChildrenOf(ns, n) == NextWalk(ns, ns[n].child, Len(ns))

\* for (diter = result->prev; diter != result; diter = diter->prev):
\* the nodes the loop visits, in the order of the visits
RECURSIVE PrevWalk(_, _, _, _)
PrevWalk(ns, r, diter, fuel) ==
    IF diter = r \/ diter = 0 \/ fuel = 0 THEN <<>>
    ELSE <<diter>> \o PrevWalk(ns, r, ns[diter].prev, fuel - 1)

EarlierSiblings(ns, r) == PrevWalk(ns, r, ns[r].prev, Len(ns))

\* for (diter = result->lprev; diter; diter = diter->lprev)
RECURSIVE LprevWalk(_, _, _)
LprevWalk(ns, diter, fuel) ==
    IF diter = 0 \/ fuel = 0 THEN <<>> ELSE <<diter>> \o LprevWalk(ns, ns[diter].lprev, fuel - 1)

EarlierInstances(ns, r) == LprevWalk(ns, ns[r].lprev, Len(ns))

\* the first child of n with the schema node, 0 if there is none
RECURSIVE FirstOf(_, _, _)
FirstOf(ns, list, schema) ==
    IF list = <<>> THEN 0
    ELSE IF ns[Head(list)].schema = schema THEN Head(list)
    ELSE FirstOf(ns, Tail(list), schema)

\* lyv_keys_present(list): the first key without an instance, or NoSchema
RECURSIVE KeysPresent(_, _, _)
KeysPresent(ns, kids, keys) ==
    IF keys = <<>> THEN NoSchema
    ELSE IF FirstOf(ns, kids, Head(keys)) = 0 THEN Head(keys)
    ELSE KeysPresent(ns, kids, Tail(keys))

lyv_keys_present(ns, r) == KeysPresent(ns, ChildrenOf(ns, r), SchemaTab[ns[r].schema].keys)

\* ly_check_mandatory(result): the first mandatory child of the schema node
\* without an instance, or NoSchema
RECURSIVE MandatoryMissing(_, _, _)
MandatoryMissing(ns, kids, list) ==
    IF list = <<>> THEN NoSchema
    ELSE IF SchemaTab[Head(list)].mandatory /\ FirstOf(ns, kids, Head(list)) = 0 THEN Head(list)
    ELSE MandatoryMissing(ns, kids, Tail(list))

ly_check_mandatory(ns, r) ==
    MandatoryMissing(ns, ChildrenOf(ns, r), SchemaTab[ns[r].schema].child)

\* the value of the key of a list instance, NULL if the key is missing
KeyValue(ns, n, key) ==
    IF FirstOf(ns, ChildrenOf(ns, n), key) = 0 THEN NULL
    ELSE ns[FirstOf(ns, ChildrenOf(ns, n), key)].value_str

\* lyd_compare(a, b, unique) = 0: two instances of one leaf-list hold the
\* same value, two instances of one list the same keys
lyd_compare_equal(ns, a, b) ==
    IF SchemaTab[ns[a].schema].nodetype = "LEAFLIST"
    THEN ns[a].value_str = ns[b].value_str
    ELSE \A i \in DOMAIN SchemaTab[ns[a].schema].keys :
            KeyValue(ns, a, SchemaTab[ns[a].schema].keys[i])
               = KeyValue(ns, b, SchemaTab[ns[a].schema].keys[i])

\* lines 1085-1106: the earlier sibling diter is data of another case
OtherCase(ns, diter, cs, ch) ==
    \/ /\ SchemaTab[SchemaTab[ns[diter].schema].parent].nodetype = "CHOICE"
       /\ SchemaTab[ns[diter].schema].parent = ch
    \/ /\ SchemaTab[SchemaTab[ns[diter].schema].parent].nodetype = "CASE"
       /\ cs = NoSchema
    \/ /\ SchemaTab[SchemaTab[ns[diter].schema].parent].nodetype = "CASE"
       /\ cs # NoSchema
       /\ SchemaTab[ns[diter].schema].parent # cs
       /\ SchemaTab[SchemaTab[ns[diter].schema].parent].parent = ch

\* cs and ch of the schema node whose parent is a case or a choice
CaseOf(schema) ==
    IF SchemaTab[SchemaTab[schema].parent].nodetype = "CHOICE" THEN NoSchema
    ELSE SchemaTab[schema].parent

ChoiceOf(schema) ==
    IF SchemaTab[SchemaTab[schema].parent].nodetype = "CHOICE" THEN SchemaTab[schema].parent
    ELSE SchemaTab[SchemaTab[schema].parent].parent

InChoice(schema) ==
    /\ SchemaTab[schema].parent # NoSchema
    /\ SchemaTab[SchemaTab[schema].parent].nodetype \in {"CASE", "CHOICE"}

ChoiceViolated(ns, r) ==
    /\ InChoice(ns[r].schema)
    /\ \E i \in DOMAIN EarlierSiblings(ns, r) :
          OtherCase(ns, EarlierSiblings(ns, r)[i], CaseOf(ns[r].schema), ChoiceOf(ns[r].schema))

\* what the checks say: go on to the siblings, or to one of the labels
Valid(ns) == [kind |-> "siblings", err |-> "", nodes |-> ns]

Invalid(code, ns) == [kind |-> "error", err |-> code, nodes |-> ns]

Cleared(ns) == [kind |-> "clear", err |-> "", nodes |-> ns]

\* while (diter->child) lyd_free(diter->child);
RECURSIVE FreeChildren(_, _, _)
FreeChildren(ns, d, fuel) ==
    IF ns[d].child = 0 \/ fuel = 0 THEN ns
    ELSE FreeChildren(lyd_free(ns, ns[d].child), d, fuel - 1)

\* the normalisation of a filter: the loop over the earlier siblings
RECURSIVE FilterLoop(_, _, _)
FilterLoop(ns, r, walk) ==
    IF walk = <<>> THEN Valid(ns)
    ELSE IF ns[Head(walk)].schema # ns[r].schema THEN FilterLoop(ns, r, Tail(walk))
    ELSE IF SchemaTab[ns[r].schema].nodetype = "CONTAINER"
    THEN IF ns[Head(walk)].child = 0 THEN Cleared(ns)
         ELSE IF ns[r].child = 0 THEN Cleared(FreeChildren(ns, Head(walk), Len(ns)))
         ELSE FilterLoop(ns, r, Tail(walk))
    ELSE IF SchemaTab[ns[r].schema].nodetype = "LEAF"
    THEN IF ns[Head(walk)].value_str = ns[r].value_str THEN Cleared(ns)
         ELSE FilterLoop(ns, r, Tail(walk))
    ELSE Cleared(ns)

\* lines 1085-1106
CheckChoice(ns, r, opts) ==
    IF "FILTER" \notin opts /\ ChoiceViolated(ns, r) THEN Invalid("MCASEDATA", ns)
    ELSE Valid(ns)

\* lines 1042-1083: an earlier instance is equal to the new one
HasEqualInstance(ns, r, earlier) ==
    \E i \in DOMAIN earlier : lyd_compare_equal(ns, earlier[i], r)

CheckUnique(ns, r, opts) ==
    IF /\ SchemaTab[ns[r].schema].nodetype \in {"LEAFLIST", "LIST"}
       /\ HasEqualInstance(ns, r, EarlierInstances(ns, r))
    THEN IF "FILTER" \in opts THEN Cleared([ns EXCEPT ![ns[r].lprev].lnext = 0])
         ELSE IF SchemaTab[ns[r].schema].nodetype = "LEAFLIST" THEN Invalid("DUPLEAFLIST", ns)
         ELSE Invalid("DUPLIST", ns)
    ELSE CheckChoice(ns, r, opts)

\* behind the normalisation of a filter
Filtered(out, r, opts) ==
    IF out.kind = "clear" THEN out ELSE CheckUnique(out.nodes, r, opts)

\* lines 988-1040 for a container, a leaf or an anyxml: an earlier sibling
\* is an instance of the same schema node
HasInstance_nearest(ns, r, earlier) ==
    earlier # <<>> /\ ns[Head(earlier)].schema = ns[r].schema

HasInstance(ns, r, earlier) ==
    \E i \in DOMAIN earlier : ns[earlier[i]].schema = ns[r].schema

CheckCount(ns, r, opts) ==
    IF SchemaTab[ns[r].schema].nodetype \notin {"CONTAINER", "LEAF", "ANYXML"}
    THEN CheckUnique(ns, r, opts)
    ELSE IF "FILTER" \in opts THEN Filtered(FilterLoop(ns, r, EarlierSiblings(ns, r)), r, opts)
    ELSE IF HasInstance(ns, r, EarlierSiblings(ns, r)) THEN Invalid("TOOMANY", ns)
    ELSE CheckUnique(ns, r, opts)

\* lines 974-986
CheckMandatory(ns, r, havechildren, opts) ==
    IF /\ havechildren
       /\ opts \cap {"FILTER", "EDIT"} = {}
       /\ ly_check_mandatory(ns, r) # NoSchema
    THEN IF SchemaTab[ly_check_mandatory(ns, r)].nodetype \in {"LIST", "LEAFLIST"}
         THEN Invalid("SPEC", ns) ELSE Invalid("MISSELEM", ns)
    ELSE CheckCount(ns, r, opts)

\* lines 964-972
CheckNode(ns, r, havechildren, opts) ==
    IF /\ SchemaTab[ns[r].schema].nodetype = "LIST"
       /\ "FILTER" \notin opts
       /\ lyv_keys_present(ns, r) # NoSchema
    THEN Invalid("MISSELEM", ns)
    ELSE CheckMandatory(ns, r, havechildren, opts)

\* the checks said out
Validated(out) ==
    /\ nodes' = out.nodes
    /\ Goto(out.kind)
    /\ IF out.kind = "error" THEN LogVal(out.err) ELSE UNCHANGED <<ly_errno, ly_vecode>>

\* result->attr = xml->attr; xml->attr = NULL; and the validation checks
Validate ==
    /\ \/ Stands("children") /\ ~(Top.havechildren /\ FrameElem(Top).child # <<>>)
       \/ Stands("child") /\ ly_errno = "LY_SUCCESS"
    /\ Validated(CheckNode(IF Top.xml = <<>>
                           THEN [nodes EXCEPT ![Top.result].attr = FrameElem(Top).attr,
                                              ![Top.result].value.v.attr = <<>>]
                           ELSE [nodes EXCEPT ![Top.result].attr = FrameElem(Top).attr],
                           Top.result, Top.havechildren, options))
    /\ xmlTree' = IF Top.xml = <<>> THEN xmlTree
                  ELSE XSet(xmlTree, Top.xml, [XAt(xmlTree, Top.xml) EXCEPT !.attr = <<>>])
    /\ UNCHANGED <<input, options, features, unres, rPc, rResult, history>>
    /\ UNCHANGED notParse

\* the label siblings: the recursive call for the next element
ProcessSiblings ==
    /\ Stands("siblings")
    /\ Top.xml # <<>>
    /\ XHasNext(xmlTree, Top.xml)
    /\ calls' = Append([calls EXCEPT ![Len(calls)].pc = "sibling"],
                       Frame(XNext(Top.xml), Top.parent,
                             IF Top.result # 0 THEN Top.result ELSE Top.prev))
    /\ UNCHANGED <<input, xmlTree, nodes, options, features, ly_errno, ly_vecode, unres,
                   rPc, rResult, history>>
    /\ UNCHANGED notParse

\* behind the call for the siblings, without the way to the label error
SiblingsFailed_return ==
    /\ Stands("sibling")
    /\ ly_errno # "LY_SUCCESS"
    /\ Return(0)
    /\ UNCHANGED <<input, xmlTree, nodes, options, features, ly_errno, ly_vecode, unres,
                   history>>
    /\ UNCHANGED notParse

\* behind the call for the siblings: if (ly_errno) goto error
SiblingsFailed ==
    /\ Stands("sibling")
    /\ ly_errno # "LY_SUCCESS"
    /\ Goto("error")
    /\ UNCHANGED <<input, xmlTree, nodes, options, features, ly_errno, ly_vecode, unres,
                   rPc, rResult, history>>
    /\ UNCHANGED notParse

\* return result;
ReturnResult ==
    /\ \/ Stands("siblings") /\ (IF Top.xml = <<>> THEN TRUE ELSE ~XHasNext(xmlTree, Top.xml))
       \/ Stands("sibling") /\ ly_errno = "LY_SUCCESS"
    /\ Return(Top.result)
    /\ UNCHANGED <<input, xmlTree, nodes, options, features, ly_errno, ly_vecode, unres,
                   history>>
    /\ UNCHANGED notParse

\* the label error: the result is unlinked and freed, the call returns NULL
Error ==
    /\ Stands("error")
    /\ nodes' = IF Top.result = 0 THEN nodes
                ELSE lyd_free([UnlinkResult(nodes, Top.result, Top.parent, Top.prev)
                                  EXCEPT ![Top.result].parent = 0,
                                         ![Top.result].prev = Top.result],
                              Top.result)
    /\ Return(0)
    /\ UNCHANGED <<input, xmlTree, options, features, ly_errno, ly_vecode, unres, history>>
    /\ UNCHANGED notParse

\* the label cleargotosiblings
ClearGotoSiblings ==
    /\ Stands("clear")
    /\ nodes' = lyd_free([UnlinkResult(nodes, Top.result, Top.parent, Top.prev)
                             EXCEPT ![Top.result].next = 0,
                                    ![Top.result].parent = 0],
                         Top.result)
    /\ calls' = [calls EXCEPT ![Len(calls)].result = 0, ![Len(calls)].pc = "siblings"]
    /\ UNCHANGED <<input, xmlTree, options, features, ly_errno, ly_vecode, unres,
                   rPc, rResult, history>>
    /\ UNCHANGED notParse

(***************************************************************************)
(* xml_read_data.                                                          *)
(***************************************************************************)
\* the path of an instance-identifier in its JSON form, and the schema
\* nodes it names
InstPathC_L == <<"/", "m", ":", "c", "/", "m", ":", "l">>

\* the nodes that are in the tree
Live(ns) == {i \in DOMAIN ns : ~ns[i].freed}

\* resolve_unres_data for one leaf of the queue: the path "../<target>" of
\* a leafref selects a leaf with the same value, the path of an
\* instance-identifier selects a node
Resolves(ns, n) ==
    IF TypeTab[SchemaTab[ns[n].schema].type].base = "LEAFREF"
    THEN \E j \in Live(ns) :
            /\ ns[j].schema = SchemaTab[ns[n].schema].target
            /\ ns[j].parent = ns[n].parent
            /\ ns[j].value_str = ns[n].value_str
    ELSE /\ ns[n].value_str = InstPathC_L
         /\ \E j \in Live(ns) :
               /\ ns[j].schema = "l"
               /\ ns[j].parent # 0
               /\ ns[ns[j].parent].schema = "c"
               /\ ns[ns[j].parent].parent = 0

\* resolve_unres_data(unres) != 0
resolve_unres_data_fails(ns, queue) == \E i \in DOMAIN queue : ~Resolves(ns, queue[i])

\* LY_TREE_FOR_SAFE(result, next, iter) lyd_free(iter);
RECURSIVE FreeAll(_, _, _)
FreeAll(ns, iter, fuel) ==
    IF iter = 0 \/ fuel = 0 THEN ns
    ELSE FreeAll(lyd_free(ns, iter), ns[iter].next, fuel - 1)

\* the call of xml_read_data up to the call of xml_parse_data for the
\* first child of the root; a second call reads the same document again
ReadData ==
    /\ \/ rPc = "idle"
       \/ rPc = "done" /\ Len(history) = 1
    /\ xmlTree' = input
    /\ nodes' = <<>>
    /\ unres' = <<>>
    /\ ly_errno' = "LY_SUCCESS"
    /\ IF input = <<>>
       THEN calls' = <<>> /\ rResult' = 0 /\ rPc' = "parsed"
       ELSE calls' = <<Frame(<<1>>, 0, 0)>> /\ rResult' = 0 /\ rPc' = "parsing"
    /\ UNCHANGED <<input, options, features, ly_vecode, history>>
    /\ UNCHANGED notParse

\* xml_read_data behind the call of xml_parse_data
ResolveAndReturn ==
    /\ rPc = "parsed"
    /\ IF rResult # 0 /\ resolve_unres_data_fails(nodes, unres)
       THEN /\ nodes' = FreeAll(nodes, rResult, Len(nodes))
            /\ rResult' = 0
            /\ LogVal("NORESOLV")
       ELSE UNCHANGED <<nodes, rResult, ly_errno, ly_vecode>>
    /\ unres' = <<>>
    /\ xmlTree' = <<>>
    /\ rPc' = "done"
    /\ history' = Append(history, [features |-> features, ly_errno |-> ly_errno',
                                   ly_vecode |-> ly_vecode', nodes |-> nodes',
                                   result |-> rResult'])
    /\ UNCHANGED <<input, calls, options, features>>
    /\ UNCHANGED notParse

\* lys_features_enable(module, name) between two calls
FeatureEnable ==
    /\ rPc \in {"idle", "done"}
    /\ \E name \in FeatureNames \ features : features' = features \cup {name}
    /\ UNCHANGED <<input, xmlTree, nodes, calls, options, ly_errno, ly_vecode, unres,
                   rPc, rResult, history>>
    /\ UNCHANGED notParse

NextParse ==
    \/ ReadData
    \/ ParseElement
    \/ LeafrefTurn
    \/ LeafrefLeave
    \/ ProcessChildren
    \/ ChildrenFailed
    \/ Validate
    \/ ProcessSiblings
    \/ SiblingsFailed
    \/ ReturnResult
    \/ Error
    \/ ClearGotoSiblings
    \/ ResolveAndReturn
    \/ FeatureEnable

(***************************************************************************)
(* The documents read.                                                     *)
(***************************************************************************)
MaxKids == 3

MaxPair == 2

MaxAttrs == 3

\* a childless element of module m
Leaf(name, content) == XElem(name, NsM, content, <<>>, <<>>)

\* <c xmlns="urn:m"> with the children
C(kids) == XElem("c", NsM, NULL, <<>>, kids)

Lst(kids) == XElem("lst", NsM, NULL, <<>>, kids)

\* an element of a namespace no module has, with a child of module m
Foreign == XElem("u", NsX, NULL, <<>>, <<Leaf("l", <<"x">>)>>)

\* an element of module m that no schema node matches
Stray == Leaf("zz", <<"x">>)

CountElems == {Leaf("l", <<"x">>), Leaf("l", <<"y">>), Leaf("n8", <<"1">>), Leaf("ax", NULL)}

LeafListElems == {Leaf("ll", <<"x">>), Leaf("ll", <<"y">>), Leaf("ll", <<"z">>)}

ListElems ==
    {Lst(<<Leaf("k", <<"x">>)>>), Lst(<<Leaf("k", <<"y">>)>>),
     Lst(<<Leaf("v", <<"x">>)>>), Lst(<<Leaf("k", <<"x">>), Leaf("v", <<"y">>)>>)}

ChoiceElems ==
    {Leaf("a1", <<"x">>), Leaf("a2", <<"x">>), Leaf("b1", <<"x">>), Leaf("sl", <<"x">>),
     Leaf("sl", <<"y">>), Leaf("sf", <<"x">>), Leaf("x1", <<"x">>), Leaf("l", <<"x">>)}

UnknownElems == {Foreign, Stray, Leaf("l", <<"x">>), Leaf("n8", <<"1">>)}

TopElems == {Foreign, Stray, Leaf("t", <<"x">>), C(<<>>), Leaf("ct", NULL)}

\* instances of the container c: a selection node and containment nodes
ContainerElems == {C(<<>>), C(<<Leaf("l", <<"x">>)>>), C(<<Leaf("n8", <<"1">>)>>)}

\* instances of the container cm, with and without its mandatory leaf
MandatoryElems ==
    {XElem("cm", NsM, NULL, <<>>, <<>>), XElem("cm", NsM, NULL, <<>>, <<Leaf("m1", <<"x">>)>>)}

\* xmlns:p="urn:m" and xmlns:q="urn:x"
NsDecls == <<XAttr("NS", <<"p">>, NoNs, NsM), XAttr("NS", <<"q">>, NoNs, NsX)>>

Iid(content) == XElem("iid", NsM, content, NsDecls, <<>>)

RefElems ==
    {Leaf("l", <<"x">>), Leaf("ref", <<"x">>), Leaf("ref", <<"y">>), Leaf("rr", <<"x">>),
     Iid(<<"/", "p", ":", "c", "/", "p", ":", "l">>),
     Iid(<<"/", "q", ":", "c">>), Iid(<<"/", "r", ":", "c">>)}

MiscElems ==
    {Leaf("st", <<"x">>), Leaf("n8", <<"x">>), XElem("l", NoNs, <<"x">>, <<>>, <<>>),
     Leaf("l", <<"x">>), Leaf("ref", NULL)}

Insert(v) == XAttr("STD", "insert", LY_NSYANG, v)

InsertAttrs ==
    {Insert("first"), Insert("last"), Insert("before"), Insert("after"), Insert("bogus"),
     XAttr("STD", "value", LY_NSYANG, "x")}

\* attributes the checks pass over: of another namespace, of none, and a
\* namespace declaration
OtherAttrs ==
    {XAttr("STD", "insert", "urn:other", "first"), XAttr("STD", "insert", NoNs, "first"),
     XAttr("NS", "insert", NoNs, "urn:other")}

WithAttr(e, attr) == [e EXCEPT !.attr = attr]

InsertDocs ==
    {<<C(<<WithAttr(e, a)>>)>> :
        e \in {Leaf("ll", <<"w">>), Leaf("l", <<"w">>)}, a \in SeqsUpTo(InsertAttrs, MaxAttrs)}
    \cup {<<C(<<WithAttr(Leaf("ll", <<"w">>), <<o, Insert("first")>>)>>)>> : o \in OtherAttrs}
    \cup {<<C(<<Leaf("ll", <<"x">>), Leaf("ll", <<"y">>), WithAttr(Leaf("ll", <<"w">>), a)>>)>> :
            a \in {<<Insert("first")>>, <<Insert("last")>>,
                   <<Insert("before"), XAttr("STD", "value", LY_NSYANG, "y")>>,
                   <<Insert("after"), XAttr("STD", "value", LY_NSYANG, "x")>>,
                   <<Insert("after"), XAttr("STD", "value", LY_NSYANG, "y")>>}}

Docs ==
    SeqsUpTo(TopElems, MaxKids)
    \cup SeqsUpTo(ContainerElems, MaxPair)
    \cup SeqsUpTo(MandatoryElems, MaxPair)
    \cup {<<C(kids)>> : kids \in SeqsUpTo(CountElems, MaxKids)
                                 \cup SeqsUpTo(LeafListElems, MaxKids)
                                 \cup SeqsUpTo(ListElems, MaxKids)
                                 \cup SeqsUpTo(UnknownElems, MaxKids)
                                 \cup SeqsUpTo(ChoiceElems, MaxPair)
                                 \cup SeqsUpTo(RefElems, MaxPair)
                                 \cup SeqsUpTo(MiscElems, MaxPair)}
    \cup InsertDocs

OptionSets == {{}, {"STRICT"}, {"EDIT"}, {"FILTER"}}

(***************************************************************************)
(* The type statement of a leaf: yang_read_type allocates the yang_type,   *)
(* the handlers of the substatements fill typ->type, yang_check_type       *)
(* resolves the name.  The base of typ->type is 0 until a restriction is   *)
(* read, then the base the restriction stands for.                         *)
(***************************************************************************)
EXIT_SUCCESS == 0

EXIT_FAILURE == 1

\* the prefixes of the module: its own, and that of the module it imports
SchemaPrefixes == ("p" :> "m") @@ ("i" :> "n")

\* the types in scope: the built-in types and the typedefs of the modules,
\* each with its base; "later" is a typedef that is not resolved yet
ResolvedBase ==
       <<"s", "t", "r", "i", "n", "g">> :> "STRING"
    @@ <<"b", "i", "n", "a", "r", "y">> :> "BINARY"
    @@ <<"i", "n", "t", "8">> :> "INT8"
    @@ <<"m", ":", "t", "s">> :> "STRING"
    @@ <<"n", ":", "t", "b">> :> "BINARY"
    @@ <<"n", ":", "t", "i">> :> "INT8"
    @@ <<"l", "a", "t", "e", "r">> :> "UNRES"

\* the arguments of the type statements read
TypeNames ==
    {<<"s", "t", "r", "i", "n", "g">>, <<"b", "i", "n", "a", "r", "y">>, <<"i", "n", "t", "8">>,
     <<"p", ":", "t", "s">>, <<"i", ":", "t", "b">>, <<"i", ":", "t", "i">>,
     <<"l", "a", "t", "e", "r">>, <<"q", ":", "t", "s">>, <<"8", "x">>, <<"p", ":", "8">>,
     <<"n", "o", "n", "e">>}

\* the arguments of the length statements read, and those that
\* lyp_check_length_range takes
LengthExprs == {<<"1", ".", ".", "5">>, <<"5", ".", ".", "1">>, <<"m", "a", "x">>}

ValidLengths == {<<"1", ".", ".", "5">>, <<"m", "a", "x">>}

lyp_check_length_range(expr) == IF expr \in ValidLengths THEN 0 ELSE -1

\* calloc(1, sizeof *new): the type of the leaf
NewType ==
    [base |-> "0", der |-> "0", module_name |-> NULL, length |-> NULL, pat_count |-> 0]

\* transform_schema2json(module, name, line): the prefix before the colon
\* becomes the name of its module, NULL for a prefix of no module
transform_schema2json(name) ==
    IF Strchr(name, 1, ":") = 0 THEN name
    ELSE IF Len(SubSeq(name, 1, Strchr(name, 1, ":") - 1)) = 1
            /\ name[1] \in DOMAIN SchemaPrefixes
    THEN <<SchemaPrefixes[name[1]]>> \o SubSeq(name, Strchr(name, 1, ":"), Len(name))
    ELSE NULL

\* resolve_superior_type(name, module_name, ...): 0 and the base of the
\* type found, EXIT_FAILURE for none or one not resolved yet, -1 for a
\* module that is not there
resolve_superior_type(value, module_name) ==
    IF module_name # NULL /\ module_name \notin {<<"m">>, <<"n">>}
    THEN [rc |-> -1, base |-> "0"]
    ELSE IF value \notin DOMAIN ResolvedBase \/ ResolvedBase[value] = "UNRES"
    THEN [rc |-> EXIT_FAILURE, base |-> "0"]
    ELSE [rc |-> 0, base |-> ResolvedBase[value]]

\* the label error of yang_check_type
TypeError(t, ret, err) ==
    [ret |-> ret, err |-> err, type |-> [t EXCEPT !.module_name = NULL], segv |-> FALSE]

TypeChecked(t) == [ret |-> EXIT_SUCCESS, err |-> <<>>, type |-> t, segv |-> FALSE]

\* typ->type->info.str.length->expr is read through a null pointer
TypeFault(t) == [ret |-> EXIT_SUCCESS, err |-> <<>>, type |-> t, segv |-> TRUE]

\* lines 866-887: the restrictions read, against the base resolved
CheckRestrictions(t, base) ==
    IF base = "0" THEN TypeChecked(t)
    ELSE IF base # "STRING" THEN TypeChecked(t)
    ELSE IF t.base = "BINARY"
    THEN IF t.pat_count # 0 THEN TypeError(t, -1, <<"SPEC">>)
         ELSE IF t.length = NULL
         THEN TypeFault(t)
         ELSE IF lyp_check_length_range(t.length) # 0 THEN TypeError(t, -1, <<"INARG">>)
         ELSE TypeChecked(t)
    ELSE IF t.base = "STRING"
    THEN IF t.length = NULL
         THEN TypeFault(t)
         ELSE IF lyp_check_length_range(t.length) # 0 THEN TypeError(t, -1, <<"INARG">>)
         ELSE TypeChecked(t)
    ELSE TypeChecked(t)

\* lines 851-865: behind resolve_superior_type
TypeResolved(t, r) ==
    IF r.rc = -1 THEN TypeError(t, -1, <<"INMOD">>)
    ELSE IF r.rc = EXIT_FAILURE THEN TypeError(t, EXIT_FAILURE, <<>>)
    ELSE CheckRestrictions([t EXCEPT !.base = r.base, !.der = r.base], t.base)

\* lines 833-850: the module name before the colon, i = parse_identifier
TypeNamed(t, value, i) ==
    IF i < 1 THEN TypeError(t, -1, <<"INCHAR">>)
    ELSE IF i = Len(value)
    THEN TypeResolved(t, resolve_superior_type(value, t.module_name))
    ELSE IF value[i + 1] # ":" \/ parse_identifier(value, i + 2) < 1
    THEN TypeError([t EXCEPT !.module_name = SubSeq(value, 1, i)], -1, <<"INCHAR">>)
    ELSE TypeResolved([t EXCEPT !.module_name = SubSeq(value, 1, i)],
                      resolve_superior_type(value, SubSeq(value, 1, i)))

yang_check_type(t, name) ==
    IF transform_schema2json(name) = NULL THEN TypeError(t, -1, <<>>)
    ELSE TypeNamed(t, transform_schema2json(name),
                   parse_identifier(transform_schema2json(name), 1))

\* the bound of the restrictions of one kind read for one type
MaxRestr == 2

\* yang_read_length(module, typ, value, line)
ReadLength ==
    /\ tPc = "read"
    /\ Len(SelectSeq(tErr, LAMBDA e : e = "TOOMANY")) < MaxRestr - 1
    /\ \E value \in LengthExprs :
          IF tType.base \in {"0", "STRING"}
          THEN /\ tType' = [tType EXCEPT !.base = "STRING", !.length = value]
               /\ tErr' = IF tType.length # NULL THEN Append(tErr, "TOOMANY") ELSE tErr
               /\ tRet' = 0
          ELSE IF tType.base = "BINARY"
          THEN /\ tType' = [tType EXCEPT !.length = value]
               /\ tErr' = IF tType.length # NULL THEN Append(tErr, "TOOMANY") ELSE tErr
               /\ tRet' = 0
          ELSE /\ tErr' = Append(tErr, "SPEC")
               /\ tRet' = -1
               /\ UNCHANGED tType
    /\ UNCHANGED <<tName, tPc>>
    /\ UNCHANGED notType

\* the handler of the pattern statement: one more pattern of a string
ReadPattern ==
    /\ tPc = "read"
    /\ tType.pat_count < MaxRestr
    /\ tType.base \in {"0", "STRING"}
    /\ tType' = [tType EXCEPT !.base = "STRING", !.pat_count = @ + 1]
    /\ tRet' = 0
    /\ UNCHANGED <<tName, tPc, tErr>>
    /\ UNCHANGED notType

\* yang_check_type(module, parent, typ, unres); a read through the null
\* pointer info.str.length ends the process, or reads what the page holds
\* and takes it or not
CheckType ==
    /\ tPc = "read"
    /\ tType' = yang_check_type(tType, tName).type
    /\ IF yang_check_type(tType, tName).segv
       THEN \/ tPc' = "fault" /\ UNCHANGED <<tRet, tErr>>
            \/ tPc' = "done" /\ tRet' = EXIT_SUCCESS /\ UNCHANGED tErr
            \/ tPc' = "done" /\ tRet' = -1 /\ tErr' = Append(tErr, "INARG")
       ELSE /\ tPc' = "done"
            /\ tRet' = yang_check_type(tType, tName).ret
            /\ tErr' = tErr \o yang_check_type(tType, tName).err
    /\ UNCHANGED tName
    /\ UNCHANGED notType

NextType ==
    \/ ReadLength
    \/ ReadPattern
    \/ CheckType

(***************************************************************************)
(* The key statement of a list: yang_read_key counts the keys, allocates   *)
(* list->keys and leaves the names to the resolution of the schema.        *)
(***************************************************************************)
\* the longest argument of a key statement
MaxKey == 4

\* the characters of the arguments
KeyChars == {"a", "b", " ", "\t"}

\* strpbrk(value, " \t\n") from position i: the position of the first of
\* the characters, 0 for none
RECURSIVE strpbrk(_, _)
strpbrk(s, i) ==
    IF i > Len(s) THEN 0
    ELSE IF s[i] \in {" ", "\t", "\n"} THEN i
    ELSE strpbrk(s, i + 1)

\* the loop of lines 725-730 from position value, keys_size being size
RECURSIVE KeysLoop(_, _, _)
KeysLoop(s, value, size) ==
    IF strpbrk(s, value) = 0 THEN size
    ELSE KeysLoop(s, SkipSpace(s, strpbrk(s, value)), size + 1)

\* yang_read_key(module, list, unres, line)
ReadKey ==
    /\ kPc = "call"
    /\ kSize' = (KeysLoop(kArg, 1, kSize) + 1) % Uint8Mod
    /\ kKeys' = kSize'
    /\ kUnres' = Append(kUnres, [kind |-> "UNRES_LIST_KEYS", str |-> kArg])
    /\ kRet' = EXIT_SUCCESS
    /\ kPc' = "done"
    /\ UNCHANGED kArg
    /\ UNCHANGED notKey

NextKey == ReadKey

(***************************************************************************)
(* The arrays of the schema that grow in steps of LY_ARRAY_SIZE elements:  *)
(* yang_add_elem and yang_elem_of_array.                                   *)
(***************************************************************************)
\* the step of the arrays, scaled down
LY_ARRAY_SIZE == 4

\* most elements added to one array
MaxElems == 10

\* `!*size % LY_ARRAY_SIZE`: the negation binds tighter than the remainder
AddElemGrows(size) == (IF size = 0 THEN 1 ELSE 0) % LY_ARRAY_SIZE # 0

\* `!(*act_size % LY_ARRAY_SIZE)`
ElemOfArrayGrows(size) == size % LY_ARRAY_SIZE = 0

\* yang_add_elem: ly_realloc may fail and leaves NULL then
AddElem ==
    /\ aRet = EXIT_SUCCESS
    /\ aSize < MaxElems
    /\ IF AddElemGrows(aSize)
       THEN \/ /\ aCap' = aSize + LY_ARRAY_SIZE
               /\ aSize' = aSize + 1
               /\ aRet' = EXIT_SUCCESS
            \/ /\ aCap' = 0
               /\ aRet' = EXIT_FAILURE
               /\ UNCHANGED aSize
       ELSE /\ aSize' = aSize + 1
            /\ aRet' = EXIT_SUCCESS
            /\ UNCHANGED aCap
    /\ UNCHANGED <<eSize, eCap, eRet>>
    /\ UNCHANGED notArr

\* yang_elem_of_array: the element returned is counted, NULL is a failure
ElemOfArray ==
    /\ eRet = EXIT_SUCCESS
    /\ eSize < MaxElems
    /\ IF ElemOfArrayGrows(eSize)
       THEN \/ /\ eCap' = eSize + LY_ARRAY_SIZE
               /\ eSize' = eSize + 1
               /\ eRet' = EXIT_SUCCESS
            \/ /\ eCap' = 0
               /\ eRet' = EXIT_FAILURE
               /\ UNCHANGED eSize
       ELSE /\ eSize' = eSize + 1
            /\ eRet' = EXIT_SUCCESS
            /\ UNCHANGED eCap
    /\ UNCHANGED <<aSize, aCap, aRet>>
    /\ UNCHANGED notArr

NextArr ==
    \/ AddElem
    \/ ElemOfArray

(***************************************************************************)
(* One call of transform_data_xml2json on the value of an element that     *)
(* binds prefixes shorter than, as long as and longer than the names of    *)
(* their modules.                                                          *)
(***************************************************************************)
\* the longest value
MaxPath == 6

PathChars == {"/", ":", "p", "b", "q"}

XfDecls ==
    <<XAttr("NS", <<"p">>, NoNs, NsM), XAttr("NS", <<"p", "p">>, NoNs, NsM),
      XAttr("NS", <<"b">>, NoNs, NsBig), XAttr("NS", <<"q">>, NoNs, NsX)>>

XfTree == <<XElem("iid", NsM, <<>>, XfDecls, <<>>)>>

\* the call; a walk of strpbrk_backwards that left the value read what
\* stands in front of it: the call fails on it or the read faults
Transform ==
    /\ xfPc = "call"
    /\ IF transform_data_xml2json(XfTree, <<1>>, xfIn).err = "UB"
       THEN \/ /\ xfRes' \in {XmlJsonFail("INCHAR"), XmlJsonFail("SPEC")}
               /\ xfPc' = "done"
            \/ /\ xfPc' = "fault"
               /\ UNCHANGED xfRes
       ELSE /\ xfRes' = transform_data_xml2json(XfTree, <<1>>, xfIn)
            /\ xfPc' = "done"
    /\ UNCHANGED xfIn
    /\ UNCHANGED notXf

NextXf == Transform

(***************************************************************************)
(* The specifications.                                                     *)
(***************************************************************************)
IdleStmt ==
    /\ owner = "module"
    /\ fields = [f \in StringFields |-> NULL]
    /\ flags = 0
    /\ stmtRet = 0
    /\ lastStmt = [stmt |-> "none", value |-> NULL]

IdleImport ==
    /\ imports = [m \in Modules |-> <<>>]
    /\ heap = [a \in Addrs |-> NoStr]
    /\ parsing = <<>>
    /\ loaded = {}
    /\ frames = <<>>
    /\ outcome = "idle"

IdleRev ==
    /\ rev = <<>>
    /\ cur = 0
    /\ readDates = <<>>
    /\ revRet = 0

IdleVal ==
    /\ dType = "L_int8"
    /\ dContent = NULL
    /\ dOpts = {}
    /\ leaf = EmptyLeaf
    /\ dPc = "done"
    /\ dRet = 0
    /\ dErr = ""
    /\ uType = NoType
    /\ tried = <<>>

IdleParse ==
    /\ input = <<>>
    /\ xmlTree = <<>>
    /\ nodes = <<>>
    /\ calls = <<>>
    /\ options = {}
    /\ features = {}
    /\ ly_errno = "LY_SUCCESS"
    /\ ly_vecode = ""
    /\ unres = <<>>
    /\ rPc = "done"
    /\ rResult = 0
    /\ history = <<>>

IdleType ==
    /\ tName = NULL
    /\ tType = NewType
    /\ tPc = "done"
    /\ tRet = 0
    /\ tErr = <<>>

IdleKey ==
    /\ kArg = <<>>
    /\ kSize = 0
    /\ kKeys = -1
    /\ kUnres = <<>>
    /\ kRet = 0
    /\ kPc = "done"

IdleArr ==
    /\ aSize = 0
    /\ aCap = 0
    /\ aRet = 0
    /\ eSize = 0
    /\ eCap = 0
    /\ eRet = 0

IdleXf ==
    /\ xfIn = <<>>
    /\ xfRes = XmlJsonFail("")
    /\ xfPc = "done"

InitImport ==
    /\ imports \in [Modules -> SeqsUpTo(ImportNames, MaxImports)]
    /\ heap = [a \in Addrs |-> NoStr]
    /\ parsing = <<>>
    /\ loaded = {}
    /\ frames = <<>>
    /\ outcome = "idle"
    /\ IdleRev
    /\ IdleStmt
    /\ IdleVal
    /\ IdleParse
    /\ IdleType
    /\ IdleKey
    /\ IdleArr
    /\ IdleXf

SpecImport == InitImport /\ [][NextImport]_vars

InitRev == IdleRev /\ IdleImport /\ IdleStmt /\ IdleVal /\ IdleParse /\ IdleType /\ IdleKey /\ IdleArr /\ IdleXf

SpecRev == InitRev /\ [][NextRev]_vars

InitStmt ==
    /\ owner \in OwnerKinds
    /\ fields = [f \in StringFields |-> NULL]
    /\ flags = 0
    /\ stmtRet = 0
    /\ lastStmt = [stmt |-> "none", value |-> NULL]
    /\ IdleImport
    /\ IdleRev
    /\ IdleVal
    /\ IdleParse
    /\ IdleType
    /\ IdleKey
    /\ IdleArr
    /\ IdleXf

SpecStmt == InitStmt /\ [][NextStmt]_vars

InitVal ==
    /\ dType \in LeafTypes
    /\ dOpts \in {{}, {"FILTER"}}
    /\ dContent \in Inputs(dType, dOpts)
    /\ leaf = EmptyLeaf
    /\ dPc = "call"
    /\ dRet = 0
    /\ dErr = ""
    /\ uType = NoType
    /\ tried = <<>>
    /\ IdleImport
    /\ IdleRev
    /\ IdleStmt
    /\ IdleParse
    /\ IdleType
    /\ IdleKey
    /\ IdleArr
    /\ IdleXf

SpecValue == InitVal /\ [][NextVal]_vars

\* the features of a module are disabled until they are enabled
InitParse ==
    /\ input \in Docs
    /\ options \in OptionSets
    /\ features = {}
    /\ xmlTree = <<>>
    /\ nodes = <<>>
    /\ calls = <<>>
    /\ ly_errno = "LY_SUCCESS"
    /\ ly_vecode = ""
    /\ unres = <<>>
    /\ rPc = "idle"
    /\ rResult = 0
    /\ history = <<>>
    /\ IdleImport
    /\ IdleRev
    /\ IdleStmt
    /\ IdleVal
    /\ IdleType
    /\ IdleKey
    /\ IdleArr
    /\ IdleXf

SpecParse == InitParse /\ [][NextParse]_vars

\* yang_read_type has allocated the type for the name
InitType ==
    /\ tName \in TypeNames
    /\ tType = NewType
    /\ tPc = "read"
    /\ tRet = 0
    /\ tErr = <<>>
    /\ IdleImport
    /\ IdleRev
    /\ IdleStmt
    /\ IdleVal
    /\ IdleParse
    /\ IdleKey
    /\ IdleArr
    /\ IdleXf

SpecType == InitType /\ [][NextType]_vars

\* the list has been allocated and holds the argument of its key statement
InitKey ==
    /\ kArg \in SeqsUpTo(KeyChars, MaxKey)
    /\ kSize = 0
    /\ kKeys = -1
    /\ kUnres = <<>>
    /\ kRet = 0
    /\ kPc = "call"
    /\ IdleImport
    /\ IdleRev
    /\ IdleStmt
    /\ IdleVal
    /\ IdleParse
    /\ IdleType
    /\ IdleArr
    /\ IdleXf

SpecKey == InitKey /\ [][NextKey]_vars

\* both arrays are empty: no element, nothing allocated
InitArr ==
    /\ aSize = 0
    /\ aCap = 0
    /\ aRet = EXIT_SUCCESS
    /\ eSize = 0
    /\ eCap = 0
    /\ eRet = EXIT_SUCCESS
    /\ IdleImport
    /\ IdleRev
    /\ IdleStmt
    /\ IdleVal
    /\ IdleParse
    /\ IdleType
    /\ IdleKey
    /\ IdleXf

SpecArr == InitArr /\ [][NextArr]_vars

InitXf ==
    /\ xfIn \in SeqsUpTo(PathChars, MaxPath)
    /\ xfRes = XmlJsonFail("")
    /\ xfPc = "call"
    /\ IdleImport
    /\ IdleRev
    /\ IdleStmt
    /\ IdleVal
    /\ IdleParse
    /\ IdleType
    /\ IdleKey
    /\ IdleArr

SpecXf == InitXf /\ [][NextXf]_vars

(***************************************************************************)
(* The claims.                                                             *)
(***************************************************************************)
\* the names that stand on the parsing stack, bottom first
StackNames == [i \in DOMAIN parsing |-> StrAt(parsing[i])]

\* C1: yang_fill_import fails with a circular-import error, without trying
\* to load, whenever the imported name equals (as a string) a name already
\* on the parsing stack.  Then no name is ever pushed while an equal name
\* is on the stack: the names on the stack are pairwise different, so the
\* chain A imports B, B imports A stops at the second import of B.
C1_CircularImportCaught ==
    \A i, j \in DOMAIN parsing : i # j => StackNames[i] # StackNames[j]

\* how often a date stands in a sequence of dates
Count(dates, d) == Cardinality({i \in DOMAIN dates : dates[i] = d})

RevDates == [i \in DOMAIN rev |-> rev[i].date]

\* C2: after any sequence of yang_read_revision calls rev[0] holds the
\* newest date read so far, the array holds exactly the dates read (none
\* lost, none duplicated), and a description or reference attached to a
\* revision stays with the date of its revision statement when the swap
\* moves the revision.
C2_NewestAtZeroNothingLost ==
    /\ rev # <<>> => \A d \in Range(readDates) : Strcmp(rev[1].date, d) >= 0
    /\ Len(rev) = Len(readDates)
    /\ \A d \in Dates : Count(RevDates, d) = Count(readDates, d)
    /\ \A i \in DOMAIN rev :
         /\ rev[i].dsc \in {NULL, TextOf("dsc", rev[i].date)}
         /\ rev[i].ref \in {NULL, TextOf("ref", rev[i].date)}

\* C2 witness: a revision that carries a description and a reference was
\* moved out of rev[0] by a later, newer revision, which got its own
\* description.
C2_Witness ==
    /\ Len(rev) >= 2
    /\ readDates[1] # rev[1].date
    /\ \E i \in 2..Len(rev) :
         /\ rev[i].date = readDates[1]
         /\ rev[i].dsc # NULL
         /\ rev[i].ref # NULL
    /\ rev[1].dsc # NULL

\* C3 as stated: the whole array is ordered newest-first.
C3_WholeArraySorted ==
    \A i, j \in DOMAIN rev : i < j => Strcmp(rev[i].date, rev[j].date) >= 0

\* C3 as amended: only index 0 is ordered against the rest; no entry of
\* the array is newer than rev[0].
C3_FirstIsNewest ==
    \A j \in DOMAIN rev : Strcmp(rev[1].date, rev[j].date) >= 0

\* C3 witness: rev[0] is the newest while the entries behind it stand
\* oldest-first.
C3_Witness ==
    /\ Len(rev) = 3
    /\ Strcmp(rev[2].date, rev[3].date) < 0
    /\ Strcmp(rev[1].date, rev[3].date) > 0

\* the member a string statement is stored in
FieldOf(stmt) ==
    CASE stmt = "namespace" -> "ns"
      [] stmt = "organization" -> "org"
      [] stmt = "contact" -> "contact"
      [] stmt = "prefix" -> "prefix"
      [] stmt = "description" -> "dsc"
      [] stmt = "reference" -> "ref"
      [] stmt = "presence" -> "presence"
      [] stmt = "default" -> "dflt"
      [] stmt = "units" -> "units"
      [] stmt = "error-message" -> "emsg"
      [] stmt = "error-app-tag" -> "eapptag"

\* the bits a flag statement is stored in
MaskOf(stmt) ==
    CASE stmt = "config" -> LYS_CONFIG_MASK
      [] stmt = "status" -> LYS_STATUS_MASK
      [] stmt = "mandatory" -> LYS_MAND_MASK

OnceStrings ==
    {"namespace", "organization", "contact", "prefix", "description",
     "reference", "presence", "default", "units", "error-message",
     "error-app-tag"}

OnceFlags == {"config", "status", "mandatory"}

\* one handler call, as the claim wants it: a first occurrence (with a
\* well-formed argument) is stored and returns success, a later occurrence
\* on the same owner fails and changes neither the strings nor the flags
OnceStep(owners) ==
    LET stmt == lastStmt'.stmt
        value == lastStmt'.value
    IN
    /\ (owner \in owners /\ stmt \in OnceStrings) =>
         IF fields[FieldOf(stmt)] # NULL
         THEN stmtRet' = 1 /\ fields' = fields /\ flags' = flags
         ELSE (stmt = "prefix" => lyp_check_identifier(value) = 0) =>
                 /\ stmtRet' = 0
                 /\ fields' = [fields EXCEPT ![FieldOf(stmt)] = value]
                 /\ flags' = flags
    /\ (owner \in owners /\ stmt \in OnceFlags) =>
         IF BitAnd(flags, MaskOf(stmt)) # 0
         THEN stmtRet' = 1 /\ fields' = fields /\ flags' = flags
         ELSE /\ stmtRet' = 0
              /\ BitAnd(flags', MaskOf(stmt)) = value
              /\ flags' - value = flags
              /\ fields' = fields

\* C4: for every owner and every at-most-once statement the first
\* occurrence is stored, and any later occurrence on the same owner fails
\* with TOO_MANY and leaves the stored value and all flag bits unchanged.
C4_AtMostOnce == [][OnceStep(OwnerKinds)]_vars

\* the same for every owner but the import statement (not a claim: it
\* shows where C4 fails and where it does not)
AtMostOnceButImport == [][OnceStep(OwnerKinds \ {"import"})]_vars

(***************************************************************************)
(* Claims on the value decoder.                                            *)
(***************************************************************************)
\* a call that was given a content has returned
Decoded(bases) ==
    /\ dPc = "done"
    /\ dContent # NULL
    /\ TypeTab[dType].base \in bases

\* n lies in an interval of every range declared along the derivation chain
InDeclaredRanges(n, t) ==
    \A k \in DOMAIN Chain(t) :
       LET r == TypeTab[Chain(t)[k]].range IN
       r = <<>> \/ \E j \in DOMAIN r : r[j].min <= n /\ n <= r[j].max

IntegerAccepts(n, t) ==
    /\ NaturalMin(TypeTab[t].base) <= n
    /\ n <= NaturalMax(TypeTab[t].base)
    /\ InDeclaredRanges(n, t)

\* C5: an integer leaf accepts a numeric value iff it lies within the
\* natural bounds of the base type and within an interval of the range
\* restrictions; every other numeric value fails with OORVAL.
C5_IntegerRange ==
    Decoded(IntBases \cup UintBases) =>
       \A n \in ProbeNumbers :
          dContent = IntText(n) =>
             IF IntegerAccepts(n, dType)
             THEN dRet = 0 /\ leaf.value = [kind |-> TypeTab[dType].base, v |-> n]
             ELSE dRet # 0 /\ dErr = "OORVAL"

\* s without its leading white space
RECURSIVE StripLeft(_)
StripLeft(s) == IF s # <<>> /\ IsSpace(Head(s)) THEN StripLeft(Tail(s)) ELSE s

\* s without its trailing white space
RECURSIVE StripRight(_)
StripRight(s) == IF s # <<>> /\ IsSpace(Last(s)) THEN StripRight(Front(s)) ELSE s

Trimmed(s) == StripRight(StripLeft(s))

\* an integer literal: an optional sign, then decimal digits or 0x and
\* hexadecimal digits
IsIntegerLiteral(s) ==
    LET body == IF s # <<>> /\ Head(s) \in {"+", "-"} THEN Tail(s) ELSE s IN
    \/ body # <<>> /\ \A k \in DOMAIN body : IsDigit(body[k])
    \/ /\ Len(body) > 2
       /\ body[1] = "0"
       /\ body[2] = "x"
       /\ \A k \in 3..Len(body) : DigitIn(body[k]) < 16

\* C6: decoding an integer leaf is a strict lexical parse: it fails for
\* every value that is not an integer literal optionally surrounded by
\* white space (the empty string, a value of white space only, a number
\* followed by other characters), and for a negative literal given to an
\* unsigned type.
C6_StrictLexicalParse ==
    (Decoded(IntBases \cup UintBases) /\ dRet = 0) =>
       /\ IsIntegerLiteral(Trimmed(dContent))
       /\ TypeTab[dType].base \in UintBases => Head(Trimmed(dContent)) # "-"

\* the members of a union in declared order, nested unions and the union
\* of the typedef the type derives from flattened depth-first
RECURSIVE Flatten(_)
RECURSIVE FlattenFrom(_, _)
FlattenFrom(t, i) ==
    IF i > Len(TypeTab[t].uni) THEN <<>>
    ELSE (IF TypeTab[TypeTab[t].uni[i]].base = "UNION"
          THEN Flatten(TypeTab[t].uni[i])
          ELSE <<TypeTab[t].uni[i]>>) \o FlattenFrom(t, i + 1)

Flatten(t) ==
    FlattenFrom(t, 1) \o (IF Der(t) = NoType THEN <<>> ELSE Flatten(Der(t)))

MemberAccepts(m) == XmlGetValue(EmptyLeaf, m, dContent, dOpts).ret = 0

InUnion ==
    /\ dPc \in {"union", "done"}
    /\ dContent # NULL
    /\ TypeTab[dType].base = "UNION"

\* C7: a union tries its members in declared order, nested and inherited
\* unions flattened depth-first; the type chosen is the first member the
\* value is valid for, no member is tried twice, and if no member accepts
\* the value the decode fails with INVAL.
C7_UnionMembersInOrder ==
    InUnion =>
       /\ \A i, j \in DOMAIN tried : i # j => tried[i] # tried[j]
       /\ Len(tried) <= Len(Flatten(dType))
       /\ tried = SubSeq(Flatten(dType), 1, Len(tried))
       /\ \A i \in 1..(Len(tried) - 1) : ~MemberAccepts(tried[i])
       /\ (dPc = "done" /\ dRet = 0) =>
             /\ tried # <<>>
             /\ MemberAccepts(Last(tried))
             /\ leaf.value_type = TypeTab[Last(tried)].base
       /\ (dPc = "done" /\ dRet # 0) =>
             /\ dErr = "INVAL"
             /\ tried = Flatten(dType)
             /\ \A i \in DOMAIN tried : ~MemberAccepts(tried[i])

\* C8: a boolean leaf is decoded only from exactly "true", stored as 1, and
\* from exactly "false", stored as 0; every other value fails.
C8_BooleanOnlyTrueFalse ==
    Decoded({"BOOL"}) =>
       IF dContent = <<"t", "r", "u", "e">>
       THEN dRet = 0 /\ leaf.value = [kind |-> "bool", v |-> 1]
       ELSE IF dContent = <<"f", "a", "l", "s", "e">>
       THEN dRet = 0 /\ leaf.value.v = 0
       ELSE dRet # 0

\* the tokens of a white-space separated list
RECURSIVE Tokens(_)
Tokens(s) ==
    LET t == StripLeft(s) IN
    IF t = <<>> THEN <<>>
    ELSE <<SubSeq(t, 1, TokenLen(t, 1))>>
         \o Tokens(SubSeq(t, TokenLen(t, 1) + 1, Len(t)))

BitNames == TypeTab[LocateDefs(dType)].bits

ValidBits(toks) ==
    /\ \A i \in DOMAIN toks : toks[i] \in Range(BitNames)
    /\ \A i, j \in DOMAIN toks : i # j => toks[i] # toks[j]

\* C9: a bits leaf accepts a value iff it is a white-space separated list
\* of names of bits of the resolved bit set with no name twice, in whatever
\* order the names are written; on success exactly the named bits are set
\* in the result array; a duplicate or unknown name fails with INVAL.
\* (Stated for values that neither begin nor end with white space.)
C9_BitsAnyOrder ==
    (Decoded({"BITS"}) /\ dContent = Trimmed(dContent)) =>
       IF ValidBits(Tokens(dContent))
       THEN /\ dRet = 0
            /\ leaf.value.kind = "bit"
            /\ \A k \in DOMAIN BitNames :
                  leaf.value.v[k] <=> BitNames[k] \in Range(Tokens(dContent))
       ELSE dRet # 0 /\ dErr = "INVAL"

\* the value satisfies the length and every pattern declared at level u
LevelAdmits(u, str) ==
    /\ \/ TypeTab[u].length = <<>>
       \/ \E j \in DOMAIN TypeTab[u].length :
             /\ TypeTab[u].length[j].min <= Len(str)
             /\ Len(str) <= TypeTab[u].length[j].max
    /\ \A j \in DOMAIN TypeTab[u].patterns :
          MatchHere(TypeTab[u].patterns[j] \o <<"$">>, str)

\* C10: a string leaf enforces the length and every pattern declared at
\* any level of the derivation chain of its type: a value that violates a
\* length or pattern of an ancestor typedef is rejected even when the own
\* level of the leaf's type declares no length and no pattern.
C10_StringChainEnforced ==
    (Decoded({"STRING"}) /\ dRet = 0) =>
       \A k \in DOMAIN Chain(dType) : LevelAdmits(Chain(dType)[k], dContent)

\* the digits of a fraction, padded to d digits, as a number
RECURSIVE DigitsVal(_, _)
DigitsVal(fp, d) ==
    IF d = 0 THEN 0
    ELSE DigitsVal(fp, d - 1) * 10 + (IF d <= Len(fp) THEN DigitVal(fp[d]) ELSE 0)

\* the lexical value of the probe p times 10^d
Scaled(p, d) ==
    (IF p.neg THEN -1 ELSE 1) * (p.ip * 10 ^ d + DigitsVal(p.fp, d))

FractionDigits == TypeTab[LocateDefs(dType)].dig

\* C11: a decimal64 leaf with fraction-digits d stores N = lexical value
\* times 10^d, fails with OORVAL when more than d fraction digits are
\* given or N overflows, and is accepted iff N lies in an interval of the
\* range restrictions scaled by 10^d.
C11_Decimal64Scaled ==
    Decoded({"DEC64"}) =>
       \A p \in DecProbes :
          dContent = DecText(p) =>
             IF /\ Len(p.fp) <= FractionDigits
                /\ LLONG_MIN <= Scaled(p, FractionDigits)
                /\ Scaled(p, FractionDigits) <= LLONG_MAX
                /\ InDeclaredRanges(Scaled(p, FractionDigits), dType)
             THEN /\ dRet = 0
                  /\ leaf.value = [kind |-> "DEC64", v |-> Scaled(p, FractionDigits)]
             ELSE dRet # 0 /\ dErr = "OORVAL"

\* the namespaces of the modules of the context
ContextNamespaces == {NsM}

\* the call at the head of xml_parse_data is for an element with a
\* namespace that no schema node matches
UnknownElement ==
    /\ Stands("enter")
    /\ XAt(xmlTree, Top.xml).ns # NoNs
    /\ FindSchema(nodes, XAt(xmlTree, Top.xml), Top.parent) = NoSchema

\* the call returned NULL to its caller
ReturnedNull ==
    /\ calls' = SubSeq(calls, 1, Len(calls) - 1)
    /\ Len(calls) = 1 => rResult' = 0

\* C12: an element that matches no schema node makes xml_parse_data fail
\* with INELEM when STRICT is set or the namespace of the element belongs
\* to a module of the context; otherwise the step creates no data node and
\* logs no error, and the call goes on at the next sibling of the element
\* (or returns when there is none) without entering its children.
C12_UnknownElement ==
    [][/\ UnknownElement =>
             IF "STRICT" \in options \/ XAt(xmlTree, Top.xml).ns \in ContextNamespaces
             THEN /\ ly_errno' = "LY_EVALID"
                  /\ ly_vecode' = "INELEM"
                  /\ ReturnedNull
                  /\ nodes' = nodes
             ELSE /\ nodes' = nodes
                  /\ UNCHANGED <<ly_errno, ly_vecode, unres, xmlTree>>
                  /\ calls' = [calls EXCEPT ![Len(calls)].pc = "siblings"]
                  /\ Top.result = 0
        /\ (Stands("siblings") /\ Top.schema = NoSchema) =>
              /\ nodes' = nodes
              /\ UNCHANGED <<ly_errno, ly_vecode>>
              /\ IF XHasNext(xmlTree, Top.xml)
                 THEN /\ Len(calls') = Len(calls) + 1
                      /\ calls'[Len(calls')].xml = XNext(Top.xml)
                      /\ calls'[Len(calls')].parent = Top.parent
                      /\ calls'[Len(calls')].prev = Top.prev
                      /\ calls'[Len(calls')].pc = "enter"
                 ELSE calls' = SubSeq(calls, 1, Len(calls) - 1)
      ]_vars

\* the parser stands at the sibling behind an ignored element that has a
\* child, and an earlier sibling has its node
C12_Witness ==
    /\ Stands("enter")
    /\ Len(calls) >= 2
    /\ calls[Len(calls) - 1].pc = "sibling"
    /\ calls[Len(calls) - 1].schema = NoSchema
    /\ XAt(xmlTree, calls[Len(calls) - 1].xml).child # <<>>
    /\ Top.prev # 0
    /\ ly_errno = "LY_SUCCESS"

\* the data tree from the node n on: the schema node of n and of its
\* later siblings, each with the shape of its children
RECURSIVE DataShape(_, _, _)
DataShape(ns, n, fuel) ==
    IF n = 0 \/ fuel = 0 THEN <<>>
    ELSE <<[name |-> ns[n].schema, kids |-> DataShape(ns, ns[n].child, fuel - 1)]>>
         \o DataShape(ns, ns[n].next, fuel - 1)

\* the elements of a document that are not of the foreign namespace, in
\* document order, each with its children of this kind
RECURSIVE DocShape(_)
DocShape(elems) ==
    IF elems = <<>> THEN <<>>
    ELSE (IF Head(elems).ns = NsX THEN <<>>
          ELSE <<[name |-> Head(elems).name, kids |-> DocShape(Head(elems).child)]>>)
         \o DocShape(Tail(elems))

\* an element of the foreign namespace stands in the document
RECURSIVE HasForeign(_)
HasForeign(elems) ==
    /\ elems # <<>>
    /\ \/ Head(elems).ns = NsX
       \/ HasForeign(Head(elems).child)
       \/ HasForeign(Tail(elems))

\* C13: when xml_read_data has read, without STRICT and without an error,
\* a document in which elements of an unknown namespace stand, the tree it
\* returns holds a data node for every other element, in document order,
\* wherever the ignored elements stand.
C13_IgnoringLosesNothing ==
    (/\ rPc = "done"
     /\ Len(history) = 1
     /\ ly_errno = "LY_SUCCESS"
     /\ options \cap {"STRICT", "FILTER"} = {}
     /\ HasForeign(input))
    => DataShape(nodes, rResult, Len(nodes)) = DocShape(input)

\* the call at the head of xml_parse_data is for an element whose schema
\* node has an if-feature that is not enabled
DisabledElement ==
    /\ Stands("enter")
    /\ XAt(xmlTree, Top.xml).ns # NoNs
    /\ FindSchema(nodes, XAt(xmlTree, Top.xml), Top.parent) # NoSchema
    /\ \E f \in SchemaTab[FindSchema(nodes, XAt(xmlTree, Top.xml), Top.parent)].iffeature :
          f \notin features

\* a document of top-level elements that have schema nodes, no two of the
\* same name, one of them the element of the feature-gated container
GatedDocument ==
    /\ \A i \in DOMAIN input : input[i] \in {Leaf("ct", NULL), Leaf("t", <<"x">>), C(<<>>)}
    /\ \A i, j \in DOMAIN input : input[i] = input[j] => i = j
    /\ \E i \in DOMAIN input : input[i] = Leaf("ct", NULL)

\* C14: the step for an element whose schema node is disabled by feature
\* state logs INELEM and returns NULL with no data node allocated or linked
\* (the store of nodes is as before the step); and a document that was
\* rejected for its disabled node is, once the feature has been enabled,
\* read successfully into a tree with the node.
C14_DisabledRejected ==
    /\ [][DisabledElement =>
             /\ ly_errno' = "LY_EVALID"
             /\ ly_vecode' = "INELEM"
             /\ ReturnedNull
             /\ nodes' = nodes
             /\ unres' = unres]_vars
    /\ []((/\ Len(history) = 2
           /\ GatedDocument
           /\ options \cap {"EDIT", "FILTER"} = {}
           /\ history[1].features = {}
           /\ history[2].features = {"F"})
          => /\ history[1].result = 0
             /\ history[1].ly_vecode = "INELEM"
             /\ \A n \in DOMAIN history[1].nodes : history[1].nodes[n].freed
             /\ history[2].result # 0
             /\ history[2].ly_errno = "LY_SUCCESS"
             /\ DataShape(history[2].nodes, history[2].result, Len(history[2].nodes))
                   = DocShape(input))

\* the document <ct/> alone was rejected, the feature F was enabled, and
\* the second call returned the tree with the node of ct
C14_Witness ==
    /\ Len(history) = 2
    /\ input = <<Leaf("ct", NULL)>>
    /\ history[1].features = {}
    /\ history[1].ly_vecode = "INELEM"
    /\ history[1].nodes = <<>>
    /\ history[2].features = {"F"}
    /\ history[2].result # 0
    /\ history[2].nodes[history[2].result].schema = "ct"

\* the value of the first attribute of the name in the YANG namespace
RECURSIVE YangAttr(_, _)
YangAttr(attr, name) ==
    IF attr = <<>> THEN ""
    ELSE IF IsYangAttr(Head(attr), name) THEN Head(attr).value
    ELSE YangAttr(Tail(attr), name)

\* the position of the value in a list of contents, 0 if it is not there
RECURSIVE PositionOf(_, _, _)
PositionOf(list, v, i) ==
    IF i > Len(list) THEN 0 ELSE IF list[i] = <<v>> THEN i ELSE PositionOf(list, v, i + 1)

InsertedAt(list, w, k) == SubSeq(list, 1, k) \o <<w>> \o SubSeq(list, k + 1, Len(list))

\* where the insert and value attributes ask for the new instance w
Ordered(list, w, attr) ==
    CASE YangAttr(attr, "insert") = "first" -> <<w>> \o list
      [] YangAttr(attr, "insert") = "last" -> list \o <<w>>
      [] YangAttr(attr, "insert") = "before" ->
            InsertedAt(list, w, PositionOf(list, YangAttr(attr, "value"), 1) - 1)
      [] YangAttr(attr, "insert") = "after" ->
            InsertedAt(list, w, PositionOf(list, YangAttr(attr, "value"), 1))

\* the document is <c> with instances of the user-ordered leaf-list ll,
\* the last of them with an insert attribute that names a place among the
\* others, the others without attributes
InsertDocument ==
    /\ Len(input) = 1
    /\ input[1].name = "c"
    /\ Len(input[1].child) >= 2
    /\ \A i \in DOMAIN input[1].child : input[1].child[i].name = "ll"
    /\ \A i \in 1..(Len(input[1].child) - 1) : input[1].child[i].attr = <<>>
    /\ YangAttr(input[1].child[Len(input[1].child)].attr, "insert")
          \in {"first", "last", "before", "after"}
    /\ YangAttr(input[1].child[Len(input[1].child)].attr, "insert") \in {"before", "after"}
          => \E i \in 1..(Len(input[1].child) - 1) :
                input[1].child[i].content
                   = <<YangAttr(input[1].child[Len(input[1].child)].attr, "value")>>

\* the values of the children of the data node n, in sibling order
ValuesBelow(ns, n) == [i \in DOMAIN ChildrenOf(ns, n) |-> ns[ChildrenOf(ns, n)[i]].value_str]

\* C15: when an edit-config document adds to the instances of a
\* user-ordered leaf-list a further instance with an insert attribute, the
\* new data node stands where the attribute asks: at the head (first), at
\* the tail (last), or immediately before/after the instance with the
\* value of the value attribute.
C15_InsertPosition ==
    (/\ rPc = "done"
     /\ Len(history) = 1
     /\ "EDIT" \in options
     /\ rResult # 0
     /\ InsertDocument)
    => ValuesBelow(nodes, rResult)
          = Ordered([i \in 1..(Len(input[1].child) - 1) |-> input[1].child[i].content],
                    input[1].child[Len(input[1].child)].content,
                    input[1].child[Len(input[1].child)].attr)

\* the values of the attributes of the name in the YANG namespace
RECURSIVE YangAttrs(_, _)
YangAttrs(attr, name) ==
    IF attr = <<>> THEN <<>>
    ELSE (IF IsYangAttr(Head(attr), name) THEN <<Head(attr).value>> ELSE <<>>)
         \o YangAttrs(Tail(attr), name)

\* the insert and value attributes are acceptable on a node that is, or is
\* not, ordered by the user
AttrsAccepted(ins, vals, userordered) ==
    \/ ins = <<>> /\ vals = <<>>
    \/ userordered /\ Len(ins) = 1 /\ ins[1] \in {"first", "last"} /\ vals = <<>>
    \/ userordered /\ Len(ins) = 1 /\ ins[1] \in {"before", "after"} /\ Len(vals) = 1

\* the errors that the faults of the attributes stand for
AttrFaults(ins, vals, userordered) ==
    (IF ins # <<>> /\ ~userordered THEN {"INATTR"} ELSE {})
    \cup (IF vals # <<>> /\ ~(\E i \in DOMAIN ins : ins[i] \in {"before", "after"})
          THEN {"INATTR"} ELSE {})
    \cup (IF Len(ins) >= 2 \/ Len(vals) >= 2 THEN {"TOOMANY"} ELSE {})
    \cup (IF \E i \in DOMAIN ins : ins[i] \notin {"first", "last", "before", "after"}
          THEN {"INARG"} ELSE {})
    \cup (IF (\E i \in DOMAIN ins : ins[i] \in {"before", "after"}) /\ vals = <<>>
          THEN {"MISSATTR"} ELSE {})

\* the call at the head of xml_parse_data in edit-config mode is for an
\* element whose schema node is enabled configuration
EditElement ==
    /\ Stands("enter")
    /\ "EDIT" \in options
    /\ XAt(xmlTree, Top.xml).ns # NoNs
    /\ FindSchema(nodes, XAt(xmlTree, Top.xml), Top.parent) # NoSchema
    /\ SchemaTab[FindSchema(nodes, XAt(xmlTree, Top.xml), Top.parent)].iffeature \subseteq features
    /\ ~SchemaTab[FindSchema(nodes, XAt(xmlTree, Top.xml), Top.parent)].config_r

\* C16: in edit-config mode a node is allocated for the element iff it has
\* no insert and no value attribute, or its schema node is user-ordered
\* and it has one insert attribute first/last and no value attribute, or
\* one insert attribute before/after and one value attribute.  Otherwise
\* the call returns NULL, no node is allocated, and the error logged is
\* one the faults of the attributes stand for: INATTR (insert on a node
\* not user-ordered, value without before/after), TOOMANY (second insert
\* or value), INARG (unknown insert value), MISSATTR (before/after
\* without value).
C16_InsertAttributes ==
    [][EditElement =>
          IF AttrsAccepted(YangAttrs(XAt(xmlTree, Top.xml).attr, "insert"),
                           YangAttrs(XAt(xmlTree, Top.xml).attr, "value"),
                           SchemaTab[FindSchema(nodes, XAt(xmlTree, Top.xml), Top.parent)].userordered)
          THEN /\ Len(nodes') = Len(nodes) + 1
               /\ Len(calls') = Len(calls)
          ELSE /\ nodes' = nodes
               /\ ReturnedNull
               /\ ly_errno' = "LY_EVALID"
               /\ ly_vecode' \in
                     AttrFaults(YangAttrs(XAt(xmlTree, Top.xml).attr, "insert"),
                                YangAttrs(XAt(xmlTree, Top.xml).attr, "value"),
                                SchemaTab[FindSchema(nodes, XAt(xmlTree, Top.xml), Top.parent)].userordered)
      ]_vars

\* an edit-config element with insert="after" and a value attribute has
\* its node, and the attributes have been handed to the node
C16_Witness ==
    /\ "EDIT" \in options
    /\ \E n \in DOMAIN nodes :
          /\ nodes[n].schema = "ll"
          /\ YangAttrs(nodes[n].attr, "insert") = <<"after">>
          /\ Len(YangAttrs(nodes[n].attr, "value")) = 1

\* the nodes of the tree that are not freed and have the parent of n,
\* n apart
SiblingSet(ns, n) ==
    {d \in DOMAIN ns : d # n /\ ~ns[d].freed /\ ~ns[n].freed /\ ns[d].parent = ns[n].parent}

\* the value of the child of the list instance n that is the key
KeyOf(ns, n, key) ==
    IF \E d \in DOMAIN ns : ~ns[d].freed /\ ns[d].parent = n /\ ns[d].schema = key
    THEN ns[CHOOSE d \in DOMAIN ns : ~ns[d].freed /\ ns[d].parent = n /\ ns[d].schema = key].value_str
    ELSE NULL

\* a and b are two instances the data tree must not hold side by side
Duplicates(ns, a, b) ==
    /\ ns[a].schema = ns[b].schema
    /\ CASE SchemaTab[ns[a].schema].nodetype \in {"CONTAINER", "LEAF", "ANYXML"} -> TRUE
         [] SchemaTab[ns[a].schema].nodetype = "LEAFLIST" -> ns[a].value_str = ns[b].value_str
         [] SchemaTab[ns[a].schema].nodetype = "LIST" ->
               \A i \in DOMAIN SchemaTab[ns[a].schema].keys :
                   KeyOf(ns, a, SchemaTab[ns[a].schema].keys[i])
                      = KeyOf(ns, b, SchemaTab[ns[a].schema].keys[i])
         [] OTHER -> FALSE

\* the code for a second instance of the schema node
DuplicateCode(schema) ==
    CASE SchemaTab[schema].nodetype = "LEAFLIST" -> "DUPLEAFLIST"
      [] SchemaTab[schema].nodetype = "LIST" -> "DUPLIST"
      [] OTHER -> "TOOMANY"

\* the node of the call on top is about to be validated
AtValidation ==
    \/ Stands("children") /\ ~(Top.havechildren /\ FrameElem(Top).child # <<>>)
    \/ Stands("child") /\ ly_errno = "LY_SUCCESS"

TheCase(schema) ==
    IF SchemaTab[SchemaTab[schema].parent].nodetype = "CASE" THEN SchemaTab[schema].parent
    ELSE schema

\* the nodes d and r are data of two cases of one choice
DifferentCase(ns, d, r) ==
    /\ InChoice(ns[d].schema)
    /\ InChoice(ns[r].schema)
    /\ ChoiceOf(ns[d].schema) = ChoiceOf(ns[r].schema)
    /\ TheCase(ns[d].schema) # TheCase(ns[r].schema)

\* C18: without FILTER, the validation of a node ends with MCASEDATA only
\* when a sibling before it is data of a different case of the same
\* choice, and it always fails when there is such a sibling; several
\* instances of a shorthand case, nodes of the same case, siblings of
\* another choice and siblings of no choice are accepted.
C18_ChoiceExclusive ==
    [][AtValidation /\ "FILTER" \notin options
          => /\ (Stands("error")' /\ ly_vecode' = "MCASEDATA"
                   => \E d \in SiblingSet(nodes, Top.result) :
                         DifferentCase(nodes, d, Top.result))
             /\ ((\E d \in SiblingSet(nodes, Top.result) :
                         DifferentCase(nodes, d, Top.result))
                   => Stands("error")')
      ]_vars

\* the nodes of the tree with the parent p (0: the top level)
ChildSet(ns, p) == {d \in DOMAIN ns : ~ns[d].freed /\ ns[d].parent = p}

\* the members of a sequence
Members(w) == {w[i] : i \in DOMAIN w}

\* w, the walk along next from h, is the whole well-formed list S
ListFormed(ns, S, h, w) ==
    /\ Members(w) = S
    /\ Len(w) = Cardinality(S)
    /\ ns[h].prev = w[Len(w)]
    /\ ns[w[Len(w)]].next = 0
    /\ \A i \in 1..(Len(w) - 1) : ns[w[i + 1]].prev = w[i]

\* the sibling list below p is well formed
SiblingsFormed(ns, p) ==
    IF ChildSet(ns, p) = {} THEN p = 0 \/ ns[p].child = 0
    ELSE \E h \in ChildSet(ns, p) :
            /\ p # 0 => ns[p].child = h
            /\ ListFormed(ns, ChildSet(ns, p), h, NextWalk(ns, h, Len(ns)))

TopChecked == CheckElement(nodes, XAt(xmlTree, Top.xml), Top.parent, options, features)

\* the call on top is about to allocate a leaf of the type leafref or
\* instance-identifier for an element with a value that can be stored
RefElement ==
    /\ Stands("enter")
    /\ TopChecked.kind = "alloc"
    /\ SchemaTab[TopChecked.schema].nodetype \in {"LEAF", "LEAFLIST"}
    /\ TypeTab[SchemaTab[TopChecked.schema].type].base \in {"INST", "LEAFREF"}
    /\ XAt(xmlTree, Top.xml).content # NULL
    /\ TypeTab[SchemaTab[TopChecked.schema].type].base = "INST"
          => transform_data_xml2json(xmlTree, Top.xml, XAt(xmlTree, Top.xml).content).ok

\* C20: leafref and instance-identifier leaves are resolved behind the
\* whole document.  Without EDIT and FILTER the step that allocates such a
\* leaf puts it on the queue of unresolved data, the queue is emptied only
\* by xml_read_data behind xml_parse_data, and a call that ends with an
\* entry that does not resolve leaves no node of the tree and returns
\* NULL; with EDIT or FILTER the step queues nothing, accepts the leaf
\* and sets the unresolved flag in its value type.
C20_DeferredResolution ==
    /\ [][RefElement =>
             IF options \cap {"EDIT", "FILTER"} = {}
             THEN /\ unres' = Append(unres, Len(nodes) + 1)
                  /\ Stands("children")'
                  /\ nodes'[Len(nodes) + 1].unresolved = ""
             ELSE /\ unres' = unres
                  /\ Stands("children")'
                  /\ nodes'[Len(nodes) + 1].unresolved # ""
         ]_vars
    /\ [][unres # <<>> /\ Len(unres') < Len(unres) => rPc = "parsed" /\ calls = <<>>]_vars
    /\ [][rPc = "parsed" /\ options \cap {"EDIT", "FILTER"} = {}
             /\ (\E i \in DOMAIN unres : ~Resolves(nodes, unres[i]))
          => /\ rResult' = 0
             /\ Live(nodes') = {}
         ]_vars

\* C22: with FILTER, duplicate siblings are merged: behind a parse no
\* parent (nor the top level) has two instances of one container; of two
\* instances of which one is a selection node a single one without
\* children is left, two containment nodes are merged into one.
C22_FilterMerges ==
    rPc = "done" /\ "FILTER" \in options /\ ly_errno = "LY_SUCCESS"
       => \A a \in Live(nodes) : \A b \in SiblingSet(nodes, a) :
             ~(/\ nodes[a].schema = nodes[b].schema
               /\ SchemaTab[nodes[a].schema].nodetype = "CONTAINER")

\* the code of the first check the node r fails, the checks taken in the
\* order key presence, cardinality and duplicates, choice, mandatory
FirstViolation(ns, r) ==
    IF SchemaTab[ns[r].schema].nodetype = "LIST" /\ lyv_keys_present(ns, r) # NoSchema
    THEN "MISSELEM"
    ELSE IF \E d \in SiblingSet(ns, r) : Duplicates(ns, d, r)
    THEN DuplicateCode(ns[r].schema)
    ELSE IF \E d \in SiblingSet(ns, r) : DifferentCase(ns, d, r)
    THEN "MCASEDATA"
    ELSE IF HaveChildren(ns[r].schema) /\ ly_check_mandatory(ns, r) # NoSchema
    THEN IF SchemaTab[ly_check_mandatory(ns, r)].nodetype \in {"LIST", "LEAFLIST"}
         THEN "SPEC" ELSE "MISSELEM"
    ELSE ""

\* C23: the checks of a node run in the order key presence, cardinality,
\* leaf-list duplicates, list uniqueness, choice exclusivity, mandatory:
\* the validation of a node that fails several checks ends with the error
\* of the first of them in this order.
C23_CheckOrder ==
    [][AtValidation /\ options = {} /\ FirstViolation(nodes, Top.result) # ""
          => Stands("error")' /\ ly_vecode' = FirstViolation(nodes, Top.result)
      ]_vars

\* no node of the tree points to a node that is freed
NoDangling(ns) ==
    \A n \in Live(ns) :
       /\ ns[n].parent \in Live(ns) \cup {0}
       /\ ns[n].child \in Live(ns) \cup {0}
       /\ ns[n].next \in Live(ns) \cup {0}
       /\ ns[n].prev \in Live(ns) \cup {0}
       /\ ns[n].lnext \in Live(ns) \cup {0}
       /\ ns[n].lprev \in Live(ns) \cup {0}

\* the call on top returns with an error in this step
FailingReturn ==
    /\ calls # <<>>
    /\ calls' = Front(calls)
    /\ ly_errno' # "LY_SUCCESS"

\* C24: a call of xml_parse_data that fails returns NULL and leaves no
\* node it has created: below the parent of the call no node behind prev
\* is left, the parent has no child from the call and prev no next, no
\* node left points to a freed node through parent, child, next, prev,
\* lnext or lprev, and xml_read_data returns NULL with no node left.
C24_FailureFreesAll ==
    /\ [][FailingReturn
            => /\ Len(calls) = 1 => rResult' = 0
               /\ \A n \in Live(nodes') :
                     ~(nodes'[n].parent = Top.parent /\ n > Top.prev)
               /\ Top.parent # 0 /\ Top.prev = 0 => nodes'[Top.parent].child = 0
               /\ Top.prev # 0 => nodes'[Top.prev].next = 0
               /\ NoDangling(nodes')
         ]_vars
    /\ [](rPc = "done" /\ history[Len(history)].ly_errno # "LY_SUCCESS"
            => rResult = 0 /\ Live(nodes) = {})

\* a parse has failed behind three nodes, two of them instances of one
\* list or leaf-list, and none is left
C24_Witness ==
    /\ rPc = "done"
    /\ ly_errno # "LY_SUCCESS"
    /\ Len(nodes) >= 3
    /\ Live(nodes) = {}
    /\ \E n \in DOMAIN nodes : nodes[n].parent # 0 \/ nodes[n].lprev # 0 \/ nodes[n].lnext # 0

(***************************************************************************)
(* Claims on the types of the schema.                                      *)
(***************************************************************************)
\* C21: yang_check_type checks the restrictions read against the base
\* resolved: a type with a length restriction resolves with success only
\* when the base resolved is string or binary, and a type with a pattern
\* does not resolve with success when the base resolved is binary.
C21_RestrictionsChecked ==
    /\ tPc = "done" /\ tType.length # NULL /\ tRet = EXIT_SUCCESS
          => tType.base \in {"STRING", "BINARY"}
    /\ tPc = "done" /\ tType.pat_count > 0 /\ tType.der = "BINARY"
          => tRet # EXIT_SUCCESS

(***************************************************************************)
(* Claims on the imports of a module.                                      *)
(***************************************************************************)
\* yang_fill_import has found the module of an import that the module of
\* the frame on top imports already
DuplicateImport ==
    /\ frames # <<>>
    /\ Last(frames).pc = "afterload"
    /\ Last(frames).ret # NoModule
    /\ \E i \in 1..Last(frames).imp_size : Last(frames).imp[i] = Last(frames).ret

\* C25: the import of a module that the module imports already fails, and
\* the failed call leaves the imports of the module as they were: imp_size
\* counts the imports added with success only.
C25_DuplicateImportRejected ==
    [][DuplicateImport
          => /\ frames'[Len(frames)].pc = "error"
             /\ frames'[Len(frames)].imp_size = Last(frames).imp_size
             /\ frames'[Len(frames)].imp = Last(frames).imp
      ]_vars

(***************************************************************************)
(* Claims on the key statement.                                            *)
(***************************************************************************)
\* the number of the names in s from position i on: the starts of the
\* runs of characters that are no white space
RECURSIVE CountNames(_, _)
CountNames(s, i) ==
    IF i > Len(s) THEN 0
    ELSE (IF ~IsSpace(s[i]) /\ (i = 1 \/ IsSpace(s[i - 1])) THEN 1 ELSE 0)
         + CountNames(s, i + 1)

\* C26: yang_read_key sets keys_size, and the length of the array keys,
\* to the number of the names in the argument, which white space
\* separates, for every argument, also one with white space in front, at
\* the end or repeated, and adds one record UNRES_LIST_KEYS with the
\* argument to unres.
C26_KeysCounted ==
    kPc = "done" /\ kRet = EXIT_SUCCESS
       => /\ kSize = CountNames(kArg, 1)
          /\ kKeys = CountNames(kArg, 1)
          /\ kUnres = <<[kind |-> "UNRES_LIST_KEYS", str |-> kArg]>>


\* a frame whose yang_fill_import stands between its push and its pop
Pushed(f) == f.pc \in {"loading", "afterload"}

PushedFrames == SelectSeq(frames, Pushed)

\* C27: every call of yang_fill_import leaves the parsing stack as it
\* found it.  The stack holds exactly the arguments of the calls that stand
\* between their push and their pop, in the order of their nesting (LIFO),
\* each at the index the call counted; a call that has returned, with
\* success or through the error label, has no entry left, and the stack is
\* empty (NULL) when no module is being parsed.
C27_StackRestored ==
    /\ Len(parsing) = Len(PushedFrames)
    /\ \A i \in DOMAIN parsing :
         /\ parsing[i] = PushedFrames[i].value
         /\ PushedFrames[i].count = i
    /\ frames = <<>> => parsing = <<>>

\* C27 witness: a nested import has returned (the inner module counts an
\* import) while the outer call still has its own name on the stack, and
\* nothing else is on it.
C27_Witness ==
    /\ Len(frames) = 2
    /\ frames[1].pc = "loading"
    /\ frames[2].pc \in {"stmts", "error"}
    /\ frames[2].value # 0
    /\ parsing = <<frames[1].value>>

\* the decoding of the original lexical value against the member m alone
Alone(m) == XmlGetValue(EmptyLeaf, m, dContent, dOpts)

\* C28: a union member that rejects the value leaves no residue.  Every
\* call of a member in the loop of the union has the outcome of decoding
\* the original lexical value against that member alone: it accepts exactly
\* when the member alone accepts, the value stored and value_str are those
\* the member alone stores, and the lexical value is unchanged behind a
\* member that rejects.
C28_UnionNoResidue ==
    [][(dPc = "union" /\ uType # NoType /\ tried' # tried)
          => /\ (dPc' = "done") <=> (Alone(uType).ret = 0)
             /\ leaf'.value_str = dContent
             /\ dPc' = "done" => leaf'.value = Alone(uType).leaf.value]_vars

\* C29: after any sequence of yang_add_elem calls starting from an empty
\* array the allocated capacity is at least the element count, so the slot
\* of the element counted last lies inside the allocation.
C29_CapacityCoversCount ==
    aRet = EXIT_SUCCESS => aSize <= aCap

\* the module name the element's bindings give a prefix, NULL if the prefix
\* is unbound or its namespace belongs to no module
NameOf(prefix) ==
    IF prefix \in {<<"p">>, <<"p", "p">>} THEN <<"m">>
    ELSE IF prefix = <<"b">> THEN <<"b", "i", "g">>
    ELSE NULL

\* the prefix in front of the colon at position i: what stands behind the
\* last delimiter or colon before it
PrefixAt(c, i) ==
    IF i > 1 /\ c[i - 1] \notin {"/", " ", "[", ":"}
    THEN SubSeq(c, (CHOOSE j \in 1..(i - 1) :
                      /\ \A k \in j..(i - 1) : c[k] \notin {"/", " ", "[", ":"}
                      /\ (j = 1 \/ c[j - 1] \in {"/", " ", "[", ":"})), i - 1)
    ELSE <<>>

Colons(c) == {i \in DOMAIN c : c[i] = ":"}

\* the value with every prefix replaced by the name of its module; tok is
\* the text read since the last delimiter or colon
RECURSIVE Replaced(_, _, _)
Replaced(c, i, tok) ==
    IF i > Len(c) THEN tok
    ELSE IF c[i] = ":" THEN NameOf(tok) \o <<":">> \o Replaced(c, i + 1, <<>>)
    ELSE IF c[i] \in {"/", " ", "["} THEN tok \o <<c[i]>> \o Replaced(c, i + 1, <<>>)
    ELSE Replaced(c, i + 1, Append(tok, c[i]))

RECURSIVE SumOver(_, _, _)
SumOver(c, i, tok) ==
    IF i > Len(c) THEN 0
    ELSE IF c[i] = ":" THEN Len(NameOf(tok)) - Len(tok) + SumOver(c, i + 1, <<>>)
    ELSE IF c[i] \in {"/", " ", "["} THEN SumOver(c, i + 1, <<>>)
    ELSE SumOver(c, i + 1, Append(tok, c[i]))

\* C30: transform_data_xml2json returns the input with every prefix before
\* a ':' replaced by the name of the module of its namespace and fails when
\* a prefix is unbound or its namespace belongs to no module; on every
\* successful run out_size == out_used holds, the output is as long as the
\* input plus the sum over the prefixes of (name length - prefix length),
\* and no write goes past the buffer.
C30_PrefixesReplaced ==
    xfPc = "done" =>
       /\ (\E i \in Colons(xfIn) : NameOf(PrefixAt(xfIn, i)) = NULL) => ~xfRes.ok
       /\ xfRes.ok =>
             /\ xfRes.out = Replaced(xfIn, 1, <<>>)
             /\ xfRes.size = xfRes.used
             /\ Len(xfRes.out) = Len(xfIn) + SumOver(xfIn, 1, <<>>)
             /\ xfRes.used = Len(xfRes.out) + 1
             /\ ~xfRes.over

\* C30 witness: a value with two prefixes, one longer and one shorter than
\* the name of its module, has been transformed.
C30_Witness ==
    /\ xfPc = "done"
    /\ xfRes.ok
    /\ xfIn = <<"p", "p", ":", "/", "b", ":">>
    /\ xfRes.out = <<"m", ":", "/", "b", "i", "g", ":">>
====
